---- MODULE Spec2Model ----
(***************************************************************************)
(* A model of brnstz/routine: the colorCache of 07.go, the request         *)
(* handler and worker pool of 07.go (context deadline, cache) and the      *)
(* worker pool of 06.go (per-task timeout, shared cancel channel), on top  *)
(* of the wikimg.Puller pager.                                             *)
(*                                                                         *)
(* Specifications:                                                         *)
(*   SpecCache  callers running colorCache.Get, Add and GetMulti           *)
(*              concurrently, one step per lock operation                  *)
(*   Spec       one request of 07.go: handler, pager, workers, cache and   *)
(*              the context deadline                                       *)
(*   SpecPager  a loop calling Puller.NextURL against an upstream that     *)
(*              answers in every way it can                                *)
(*   SpecCancel a loop calling Puller.Next and Puller.FirstColor while the  *)
(*              Cancel channel is closed at some moment                    *)
(*   SpecBatch  the batch program of part_002: main pages and submits URLs  *)
(*              to a pool of workers over a channel, closes it and waits;  *)
(*              SpecBatchFair adds that enabled steps are taken            *)
(*   SpecE2E    one request of 05.go for 10 images against an upstream      *)
(*              that serves 10 images 5 to a page and never fails          *)
(*   SpecColor  one call of wikimg.firstColor on a decoded image            *)
(*   SpecWrap   one request of part_006's first program, whose workers      *)
(*              call FirstColor through a wrapper with a timeout           *)
(*   SpecErrs   the batch program of 04.go, whose workers report on errs    *)
(*   SpecBg     one round of the background task of part_006, which pulls  *)
(*              bgmax images and reads max responses                       *)
(*   SpecMulti  two requests of 05.go at once on one pool of workers        *)
(*   Spec06     one request of 06.go: handler, pager and the workers that  *)
(*              select on result, cancel and a two second timer            *)
(***************************************************************************)
EXTENDS Integers, Sequences, FiniteSets, TLC

(* ------------------------------ bounds -------------------------------- *)

\* capacity of the cache (newColorCache's argument)
CacheCap == 2

\* number of distinct image URLs
NumURLs == 3

\* number of Add calls the callers of SpecCache make
MaxAdds == 3

\* the -max flag: images per request
MaxImg == 3

\* the -buffer flag: capacity of the work queue
Buffer == 1

\* the images the upstream listing holds
CatLen == 3

\* the most images the upstream puts into one response
PageSize == 1

\* the max argument of GetMulti
GMMax == 1

\* how far above apiMax the budgets of the pagers of SpecPager go
LimitOver == 1

\* max of the program that serves several requests at once
MultiMax == 1

\* max of the program with the timeout wrapper
WrapMax == 2

\* the largest max of the program with a background task
BgMax == 1

\* the largest width and height of a decoded image
ImgDim == 2

\* the session of the end-to-end case: its budget, and the images the
\* upstream serves per page
E2EMax == 10

E2EPage == 5

(* ------------------------- program constants -------------------------- *)

\* the most results the API hands out per request
apiMax == 500

(* ------------------------------ values -------------------------------- *)

URLs == 1..NumURLs

\* no URL: the value of a list element that does not exist
NoURL == 0

\* goroutines that call the cache (the workers of 07.go)
Workers == {"w1", "w2"}

NoWorker == "none"

\* imgResponse{hex, err}; hex 0 is the empty string, err "nil" is no error
MkResp(hex, err) == [hex |-> hex, err |-> err]

\* the zero value of imgResponse
ZeroResp == MkResp(0, "nil")

\* the responses the callers of SpecCache store: a colour and a failure
AddResps == {MkResp(1, "nil"), MkResp(0, "error")}

VARIABLES
    cache,    \* the colorCache: [hmap, count, max, exp]
    mutex,    \* its sync.RWMutex: [readers, writer]
    addLog,   \* history: the Adds completed so far, [url, resp, victim]
    pc,       \* where each goroutine is
    wurl,     \* the url a goroutine works on
    wresp,    \* the imgResponse a goroutine holds
    wok,      \* the found flag of the goroutine's Get
    wreq,     \* history: the number of the request a worker holds
    localResponse, \* 06.go: each worker's localResponse channel (capacity 1)
    p,        \* the handler's Puller: [qr, i, count, max]
    cancelled,\* the Puller's Cancel channel is closed
    hpc,      \* where the handler is
    herr,     \* the error the handler is about to send
    hurl,     \* the URL the handler is about to submit
    recvd,    \* the handler's loop counter i: responses read
    responses,\* the request's responses channel (capacity max)
    imgReqs,  \* the work queue (capacity buffer)
    submitted,\* history: requests sent on imgReqs
    sentFor,  \* history: responses sent per request number
    pagerFailed, \* history: a pager call returned an error
    endedEarly,  \* history: the pager ended below max (empty page)
    panicked, \* the process died of a run-time panic
    closes,   \* history: executions of close(req.cancel)
    gm,       \* GetMulti's locals per caller: [seen, i]
    plast,    \* history: the last pager call, [err, url, reqs, tick]
    pret,     \* history: the URLs the pager has returned
    pended,   \* history: a pager call has returned EndOfResults
    fclast,   \* history: the last call of FirstColor, [err, tick]
    qclosed,  \* part_002: close(imgURLs) has run
    qcap,     \* part_002: the capacity of imgURLs
    wgn,      \* part_002: the counter of the WaitGroup
    recvFor,  \* history: how often each submitted item was received
    nreqs,    \* history: upstream listing requests of the session
    img,      \* firstColor: the decoded image, [dx, dy, at]
    fx,       \* firstColor: the loop variable x
    fy,       \* firstColor: the loop variable y
    fcol,     \* firstColor: the colour assigned last
    fpc,      \* firstColor: where the call is
    rcap,     \* the capacity of a responses channel made with max
    orphans,  \* part_006: computations running after their call timed out
    late,     \* history: results of such computations, sent and never read
    ses,      \* several requests at once: each handler's locals
    wses      \* several requests at once: the handler a worker's request is of

workerVars == <<pc, wurl, wresp, wok, wreq, localResponse>>

cacheVars == <<cache, mutex, addLog>>

handlerVars == <<p, hpc, herr, hurl, recvd>>

historyVars == <<submitted, sentFor, pagerFailed, endedEarly, closes>>

pipeVars == <<wreq, localResponse, p, cancelled, hpc, herr, hurl, recvd,
              responses, imgReqs, submitted, sentFor, pagerFailed, endedEarly,
              panicked, closes>>

\* what SpecPager records of the calls of a pager
pagerLog == <<plast, pret, pended>>

\* the variables only SpecCancel, SpecBatch and SpecE2E change
moreVars == <<img, fx, fy, fcol, fpc, rcap, orphans, late, ses, wses>>

extraVars == <<fclast, qclosed, qcap, wgn, recvFor, nreqs, moreVars>>

vars == <<cache, mutex, addLog, pc, wurl, wresp, wok, pipeVars, gm, pagerLog,
          extraVars>>

(* --------------------------- colorCache ------------------------------- *)

EmptyMap == [u \in {} |-> ZeroResp]

MapPut(h, u, r) == [x \in (DOMAIN h) \cup {u} |-> IF x = u THEN r ELSE h[x]]

MapDelete(h, u) == [x \in (DOMAIN h) \ {u} |-> h[x]]

\* container/list: the front of the list is the head of the sequence
PushFront(l, v) == <<v>> \o l

Back(l) == IF Len(l) = 0 THEN NoURL ELSE l[Len(l)]

RemoveBack(l) == SubSeq(l, 1, Len(l) - 1)

newColorCache(max) == [hmap |-> EmptyMap, count |-> 0, max |-> max, exp |-> <<>>]

\* the URL an Add into cc removes, NoURL when it removes none
AddVictim(cc) == IF cc.count >= cc.max THEN Back(cc.exp) ELSE NoURL

\* an Add that counts wrongly: it evicts only once count has passed max
CacheAddLate(cc, url, resp) ==
    IF cc.count > cc.max
    THEN [cc EXCEPT !.hmap = MapPut(MapDelete(cc.hmap, Back(cc.exp)), url, resp),
                    !.exp = PushFront(RemoveBack(cc.exp), url)]
    ELSE [cc EXCEPT !.hmap = MapPut(cc.hmap, url, resp),
                    !.exp = PushFront(cc.exp, url),
                    !.count = cc.count + 1]

\* an Add that evicts the newest entry, the front of the list
CacheAddEvictFront(cc, url, resp) ==
    IF cc.count >= cc.max
    THEN [cc EXCEPT !.hmap = MapPut(MapDelete(cc.hmap, Head(cc.exp)), url, resp),
                    !.exp = PushFront(Tail(cc.exp), url)]
    ELSE [cc EXCEPT !.hmap = MapPut(cc.hmap, url, resp),
                    !.exp = PushFront(cc.exp, url),
                    !.count = cc.count + 1]

\* the body of colorCache.Add between Lock and Unlock
CacheAdd(cc, url, resp) ==
    IF cc.count >= cc.max
    THEN [cc EXCEPT !.hmap = MapPut(MapDelete(cc.hmap, Back(cc.exp)), url, resp),
                    !.exp = PushFront(RemoveBack(cc.exp), url)]
    ELSE [cc EXCEPT !.hmap = MapPut(cc.hmap, url, resp),
                    !.exp = PushFront(cc.exp, url),
                    !.count = cc.count + 1]

\* a Get that forgets the stored value and hands out the zero response
CacheGetZero(cc, url) ==
    [resp |-> ZeroResp, ok |-> url \in DOMAIN cc.hmap]

\* resp, ok := cc.hmap[url]
CacheGet(cc, url) ==
    IF url \in DOMAIN cc.hmap
    THEN [resp |-> cc.hmap[url], ok |-> TRUE]
    ELSE [resp |-> ZeroResp, ok |-> FALSE]

\* the URLs Get finds
Retrievable(cc) == {u \in URLs : CacheGet(cc, u).ok}

(* ---------------------------- sync.RWMutex ---------------------------- *)

NewMutex == [readers |-> {}, writer |-> NoWorker]

CanRLock(m) == m.writer = NoWorker

CanLock(m) == m.writer = NoWorker /\ m.readers = {}

(* --------------------------- wikimg.Puller ---------------------------- *)

\* p.qr == nil
NoPage == [nil |-> TRUE]

\* a queryResp: the images of the page and the two continue strings, each
\* the position in the listing to go on from, 0 the empty string
MkPage(imgs, cont, aicont) ==
    [nil |-> FALSE, imgs |-> imgs, cont |-> cont, aicont |-> aicont]

\* a queryResp that names no image and no continuation
EmptyPage == MkPage(<<>>, 0, 0)

NewPuller(max) == [qr |-> NoPage, i |-> 0, count |-> 0, max |-> max]

\* the URL at a position of the upstream listing
CatURL(j) == ((j - 1) % NumURLs) + 1

Min(a, b) == IF a <= b THEN a ELSE b

\* the upstream's answer to a request that continues after position off and
\* asks for limit images
UpstreamPage(off, limit) ==
    LET n == Min(Min(limit, PageSize), CatLen - off)
    IN MkPage([j \in 1..n |-> CatURL(off + j)],
              IF off + n < CatLen THEN off + n ELSE 0,
              IF off + n < CatLen THEN off + n ELSE 0)

\* a request that asks for one image at a time
AilimitOne(pp) == 1

\* the ailimit parameter of the request
Ailimit(pp) == IF pp.count + apiMax > pp.max THEN pp.max - pp.count ELSE pp.max

\* where the request continues: the continue values of the held page when
\* both are set, else the beginning of the listing
ReqOffset(pp) ==
    IF ~pp.qr.nil /\ pp.qr.cont > 0 /\ pp.qr.aicont > 0 THEN pp.qr.cont ELSE 0

\* a request that carries whichever continue value the held page has
RequestLoose(pp) ==
    [ailimit |-> Ailimit(pp),
     continue |-> IF ~pp.qr.nil THEN pp.qr.cont ELSE 0,
     aicontinue |-> IF ~pp.qr.nil THEN pp.qr.aicont ELSE 0]

\* the parameters of the upstream request a call makes (lines 101-122);
\* a continue parameter of 0 is one that is not set
Request(pp) ==
    [ailimit |-> Ailimit(pp),
     continue |-> IF ~pp.qr.nil /\ pp.qr.cont > 0 /\ pp.qr.aicont > 0
                  THEN pp.qr.cont ELSE 0,
     aicontinue |-> IF ~pp.qr.nil /\ pp.qr.cont > 0 /\ pp.qr.aicont > 0
                    THEN pp.qr.aicont ELSE 0]

\* what a call leaves and returns: the Puller, the URL, the error, and the
\* upstream requests it made
NextResult(pp, url, err) == [p |-> pp, url |-> url, err |-> err, reqs |-> <<>>]

\* the result res of a call on pp that made its upstream request
Requested(pp, res) == [res EXCEPT !.reqs = <<Request(pp)>>]

\* a fetch that forgets to count the item it returns
NextFetchedUncounted(pp, page) ==
    IF Len(page.imgs) < 1
    THEN NextResult([pp EXCEPT !.i = 0, !.qr = page], NoURL, "EndOfResults")
    ELSE NextResult([pp EXCEPT !.i = 0, !.qr = page], page.imgs[1], "nil")

\* what the call leaves and returns once the upstream answered with page
NextFetched(pp, page) ==
    IF Len(page.imgs) < 1
    THEN NextResult([pp EXCEPT !.i = 0, !.qr = page], NoURL, "EndOfResults")
    ELSE NextResult([pp EXCEPT !.i = 0, !.qr = page, !.count = @ + 1],
                    page.imgs[1], "nil")

\* the answers of the upstream the request handlers are run against: the
\* page of the listing, or a body that names no image
UpstreamPages(pp) == {EmptyPage, UpstreamPage(ReqOffset(pp), Ailimit(pp))}

\* a pager that stops only once count has passed max
PullerNextOver(pp, isCancelled, pages) ==
    IF pp.count > pp.max
    THEN {NextResult(pp, NoURL, "EndOfResults")}
    ELSE IF isCancelled
    THEN {NextResult(pp, NoURL, "Cancelled")}
    ELSE IF ~pp.qr.nil /\ pp.i < Len(pp.qr.imgs)
    THEN {NextResult([pp EXCEPT !.i = @ + 1, !.count = @ + 1],
                     pp.qr.imgs[pp.i + 1], "nil")}
    ELSE {Requested(pp, NextResult([pp EXCEPT !.i = 0], NoURL, "transport")),
          Requested(pp, NextResult([pp EXCEPT !.i = 0, !.qr = EmptyPage],
                                   NoURL, "parse"))}
         \cup {Requested(pp, NextFetched(pp, page)) : page \in pages}

\* a pager that asks the upstream on every call, whatever page it holds
PullerNextRefetch(pp, isCancelled, pages) ==
    IF pp.count >= pp.max
    THEN {NextResult(pp, NoURL, "EndOfResults")}
    ELSE IF isCancelled
    THEN {NextResult(pp, NoURL, "Cancelled")}
    ELSE {Requested(pp, NextResult([pp EXCEPT !.i = 0], NoURL, "transport")),
          Requested(pp, NextResult([pp EXCEPT !.i = 0, !.qr = EmptyPage],
                                   NoURL, "parse"))}
         \cup {Requested(pp, NextFetched(pp, page)) : page \in pages}

\* a pager that looks at Cancel only when it has to ask the upstream
PullerNextLateCancel(pp, isCancelled, pages) ==
    IF pp.count >= pp.max
    THEN {NextResult(pp, NoURL, "EndOfResults")}
    ELSE IF ~pp.qr.nil /\ pp.i < Len(pp.qr.imgs)
    THEN {NextResult([pp EXCEPT !.i = @ + 1, !.count = @ + 1],
                     pp.qr.imgs[pp.i + 1], "nil")}
    ELSE IF isCancelled
    THEN {NextResult(pp, NoURL, "Cancelled")}
    ELSE {Requested(pp, NextResult([pp EXCEPT !.i = 0], NoURL, "transport")),
          Requested(pp, NextResult([pp EXCEPT !.i = 0, !.qr = EmptyPage],
                                   NoURL, "parse"))}
         \cup {Requested(pp, NextFetched(pp, page)) : page \in pages}

\* Puller.Next: the results a call can have when the upstream answers with
\* one of pages, with a body that does not parse, or not at all.
PullerNextFrom(pp, isCancelled, pages) ==
    IF pp.count >= pp.max
    THEN {NextResult(pp, NoURL, "EndOfResults")}
    ELSE IF isCancelled
    THEN {NextResult(pp, NoURL, "Cancelled")}
    ELSE IF ~pp.qr.nil /\ pp.i < Len(pp.qr.imgs)
    THEN {NextResult([pp EXCEPT !.i = @ + 1, !.count = @ + 1],
                     pp.qr.imgs[pp.i + 1], "nil")}
    ELSE {Requested(pp, NextResult([pp EXCEPT !.i = 0], NoURL, "transport")),
          Requested(pp, NextResult([pp EXCEPT !.i = 0, !.qr = EmptyPage],
                                   NoURL, "parse"))}
         \cup {Requested(pp, NextFetched(pp, page)) : page \in pages}

\* Puller.Next against the upstream of the request handlers
PullerNext(pp, isCancelled) ==
    PullerNextFrom(pp, isCancelled, UpstreamPages(pp))

\* the errors of Next other than EndOfResults
PagerErrors == {"transport", "parse", "Cancelled"}

\* the results FirstColor(url) can have. With Cancel closed the http client
\* fails the request with an error of its own; a call that gets as far as
\* the pixel loop returns Cancelled.
FirstColor(url, isCancelled) ==
    IF isCancelled
    THEN {MkResp(0, "Cancelled"), MkResp(0, "error")}
    ELSE {MkResp(url, "nil"), MkResp(0, "error")}

(* ------------------------- state of a request ------------------------- *)

NoReq == 0

Requests == 1..MaxImg

NoResp == [none |-> TRUE]

\* no pager call was made yet
NoCall == [err |-> "none", url |-> NoURL, reqs |-> <<>>, tick |-> 0]

\* the locals of a GetMulti call: the entries the range has visited and i
NoMulti == [seen |-> {}, i |-> 0]

\* the state of a request whose Puller is created with max
InitPipeWith(max) ==
    /\ wreq = [t \in Workers |-> NoReq]
    /\ localResponse = [t \in Workers |-> NoResp]
    /\ p = NewPuller(max)
    /\ cancelled = FALSE
    /\ hpc = "next"
    /\ herr = "nil"
    /\ hurl = NoURL
    /\ recvd = 0
    /\ responses = <<>>
    /\ imgReqs = <<>>
    /\ submitted = 0
    /\ sentFor = [r \in Requests |-> 0]
    /\ pagerFailed = FALSE
    /\ endedEarly = FALSE
    /\ panicked = FALSE
    /\ closes = 0
    /\ gm = [t \in Workers |-> NoMulti]
    /\ plast = NoCall
    /\ pret = 0
    /\ pended = FALSE

InitPipe == InitPipeWith(MaxImg)

\* FirstColor was not called yet
NoColorCall == [err |-> "none", tick |-> 0]

\* no image is decoded
NoImage == [dx |-> 0, dy |-> 0, at |-> <<>>]

\* the handlers of the program that serves several requests at once
Sessions == {"s1", "s2"}

NoSession == "none"

\* the variables of firstColor, of the background task and of the program
\* with several requests, where they are not used
InitMore ==
    /\ img = NoImage
    /\ fx = 0
    /\ fy = 0
    /\ fcol = "none"
    /\ fpc = "off"
    /\ rcap = 0
    /\ orphans = 0
    /\ late = 0
    /\ ses = <<>>
    /\ wses = [t \in Workers |-> NoSession]

\* the variables of the batch programs and the logs, where they are not used
InitExtra ==
    /\ fclast = NoColorCall
    /\ qclosed = FALSE
    /\ qcap = Buffer
    /\ wgn = 0
    /\ recvFor = [r \in Requests |-> 0]
    /\ nreqs = 0
    /\ InitMore

(* ------------------- callers of the cache, step by step --------------- *)

\* a Get that does not wait for the writer: it reads without the read lock
\* being free to take
GetRLockNoWait(t) ==
    /\ pc[t] = "idle"
    /\ \E u \in URLs : wurl' = [wurl EXCEPT ![t] = u]
    /\ mutex' = [mutex EXCEPT !.readers = @ \cup {t}]
    /\ pc' = [pc EXCEPT ![t] = "get_read"]
    /\ UNCHANGED gm
    /\ UNCHANGED pagerLog
    /\ UNCHANGED extraVars
    /\ UNCHANGED <<cache, addLog, wresp, wok, pipeVars>>

\* Get, line 78: cc.mutex.RLock()
GetRLock(t) ==
    /\ pc[t] = "idle"
    /\ CanRLock(mutex)
    /\ \E u \in URLs : wurl' = [wurl EXCEPT ![t] = u]
    /\ mutex' = [mutex EXCEPT !.readers = @ \cup {t}]
    /\ pc' = [pc EXCEPT ![t] = "get_read"]
    /\ UNCHANGED gm
    /\ UNCHANGED pagerLog
    /\ UNCHANGED extraVars
    /\ UNCHANGED <<cache, addLog, wresp, wok, pipeVars>>

\* a Get that refreshes the entry it reads: the URL moves to the list's front
GetReadRefresh(t) ==
    /\ pc[t] = "get_read"
    /\ wresp' = [wresp EXCEPT ![t] = CacheGet(cache, wurl[t]).resp]
    /\ wok' = [wok EXCEPT ![t] = CacheGet(cache, wurl[t]).ok]
    /\ cache' = [cache EXCEPT !.exp =
                   IF \E k \in 1..Len(@) : @[k] = wurl[t]
                   THEN <<wurl[t]>> \o SelectSeq(@, LAMBDA x : x # wurl[t])
                   ELSE @]
    /\ pc' = [pc EXCEPT ![t] = "get_runlock"]
    /\ UNCHANGED gm
    /\ UNCHANGED pagerLog
    /\ UNCHANGED extraVars
    /\ UNCHANGED <<mutex, addLog, wurl, pipeVars>>

\* Get, line 80: resp, ok := cc.hmap[url]
GetRead(t) ==
    /\ pc[t] = "get_read"
    /\ wresp' = [wresp EXCEPT ![t] = CacheGet(cache, wurl[t]).resp]
    /\ wok' = [wok EXCEPT ![t] = CacheGet(cache, wurl[t]).ok]
    /\ pc' = [pc EXCEPT ![t] = "get_runlock"]
    /\ UNCHANGED gm
    /\ UNCHANGED pagerLog
    /\ UNCHANGED extraVars
    /\ UNCHANGED <<cache, mutex, addLog, wurl, pipeVars>>

\* Get, lines 82-84: cc.mutex.RUnlock(); return resp, ok
GetRUnlock(t) ==
    /\ pc[t] = "get_runlock"
    /\ mutex' = [mutex EXCEPT !.readers = @ \ {t}]
    /\ pc' = [pc EXCEPT ![t] = "idle"]
    /\ wurl' = [wurl EXCEPT ![t] = NoURL]
    /\ wresp' = [wresp EXCEPT ![t] = ZeroResp]
    /\ wok' = [wok EXCEPT ![t] = FALSE]
    /\ UNCHANGED gm
    /\ UNCHANGED pagerLog
    /\ UNCHANGED extraVars
    /\ UNCHANGED <<cache, addLog, pipeVars>>

\* the Adds begun so far
AddsBegun == Len(addLog) + Cardinality({t \in Workers : pc[t] = "add_body"})

\* Add, line 47: cc.mutex.Lock()
AddLock(t) ==
    /\ pc[t] = "idle"
    /\ CanLock(mutex)
    /\ AddsBegun < MaxAdds
    /\ \E u \in URLs, r \in AddResps :
          /\ wurl' = [wurl EXCEPT ![t] = u]
          /\ wresp' = [wresp EXCEPT ![t] = r]
    /\ mutex' = [mutex EXCEPT !.writer = t]
    /\ pc' = [pc EXCEPT ![t] = "add_body"]
    /\ UNCHANGED gm
    /\ UNCHANGED pagerLog
    /\ UNCHANGED extraVars
    /\ UNCHANGED <<cache, addLog, wok, pipeVars>>

\* Add, lines 49-71
AddBody(t) ==
    /\ pc[t] = "add_body"
    /\ cache' = CacheAdd(cache, wurl[t], wresp[t])
    /\ addLog' = Append(addLog, [url |-> wurl[t], resp |-> wresp[t],
                                 victim |-> AddVictim(cache)])
    /\ pc' = [pc EXCEPT ![t] = "add_unlock"]
    /\ wurl' = [wurl EXCEPT ![t] = NoURL]
    /\ wresp' = [wresp EXCEPT ![t] = ZeroResp]
    /\ UNCHANGED gm
    /\ UNCHANGED pagerLog
    /\ UNCHANGED extraVars
    /\ UNCHANGED <<mutex, wok, pipeVars>>

\* Add, line 74: cc.mutex.Unlock()
AddUnlock(t) ==
    /\ pc[t] = "add_unlock"
    /\ mutex' = [mutex EXCEPT !.writer = NoWorker]
    /\ pc' = [pc EXCEPT ![t] = "idle"]
    /\ UNCHANGED gm
    /\ UNCHANGED pagerLog
    /\ UNCHANGED extraVars
    /\ UNCHANGED <<cache, addLog, wurl, wresp, wok, pipeVars>>

\* GetMulti, lines 234-236: cc.mutex.RLock(); i := 0
GMRLock(t) ==
    /\ pc[t] = "idle"
    /\ CanRLock(mutex)
    /\ mutex' = [mutex EXCEPT !.readers = @ \cup {t}]
    /\ gm' = [gm EXCEPT ![t] = NoMulti]
    /\ pc' = [pc EXCEPT ![t] = "gm_range"]
    /\ UNCHANGED pagerLog
    /\ UNCHANGED extraVars
    /\ UNCHANGED <<cache, addLog, wurl, wresp, wok, pipeVars>>

\* GetMulti, lines 237-249, one round of the range over cc.hmap, which visits
\* the entries in any order: break, skip a failure, or count and send
GMRange(t) ==
    /\ pc[t] = "gm_range"
    /\ \E u \in (DOMAIN cache.hmap) \ gm[t].seen :
          IF gm[t].i > GMMax
          THEN /\ pc' = [pc EXCEPT ![t] = "gm_close"]
               /\ UNCHANGED gm
          ELSE /\ gm' = [gm EXCEPT ![t] =
                           [seen |-> @.seen \cup {u},
                            i |-> IF cache.hmap[u].err # "nil"
                                  THEN @.i ELSE @.i + 1]]
               /\ UNCHANGED pc
    /\ UNCHANGED pagerLog
    /\ UNCHANGED extraVars
    /\ UNCHANGED <<cache, mutex, addLog, wurl, wresp, wok, pipeVars>>

\* GetMulti, line 249: the range has visited every entry
GMRangeEnd(t) ==
    /\ pc[t] = "gm_range"
    /\ (DOMAIN cache.hmap) \ gm[t].seen = {}
    /\ pc' = [pc EXCEPT ![t] = "gm_close"]
    /\ UNCHANGED pagerLog
    /\ UNCHANGED extraVars
    /\ UNCHANGED <<cache, mutex, addLog, wurl, wresp, wok, pipeVars, gm>>

\* GetMulti, lines 250-252: close(out); cc.mutex.RUnlock()
GMRUnlock(t) ==
    /\ pc[t] = "gm_close"
    /\ mutex' = [mutex EXCEPT !.readers = @ \ {t}]
    /\ gm' = [gm EXCEPT ![t] = NoMulti]
    /\ pc' = [pc EXCEPT ![t] = "idle"]
    /\ UNCHANGED pagerLog
    /\ UNCHANGED extraVars
    /\ UNCHANGED <<cache, addLog, wurl, wresp, wok, pipeVars>>

InitCache ==
    /\ cache = newColorCache(CacheCap)
    /\ mutex = NewMutex
    /\ addLog = <<>>
    /\ pc = [t \in Workers |-> "idle"]
    /\ wurl = [t \in Workers |-> NoURL]
    /\ wresp = [t \in Workers |-> ZeroResp]
    /\ wok = [t \in Workers |-> FALSE]
    /\ InitPipe
    /\ InitExtra

NextCache ==
    \E t \in Workers :
        \/ GetRLock(t)
        \/ GetRead(t)
        \/ GetRUnlock(t)
        \/ AddLock(t)
        \/ AddBody(t)
        \/ AddUnlock(t)
        \/ GMRLock(t)
        \/ GMRange(t)
        \/ GMRangeEnd(t)
        \/ GMRUnlock(t)

SpecCache == InitCache /\ [][NextCache]_vars

(* ------------------ the request handler (07.go, 06.go) ---------------- *)

\* lines 162-181: imgURL, err := p.Next() and the branch on err
HNext ==
    /\ hpc = "next"
    /\ \E res \in PullerNext(p, cancelled) :
          /\ p' = res.p
          /\ hurl' = res.url
          /\ herr' = IF res.err \in PagerErrors THEN res.err ELSE "nil"
          /\ hpc' = IF res.err = "EndOfResults" THEN "aggregate"
                    ELSE IF res.err = "nil" THEN "submit" ELSE "senderr"
          /\ pagerFailed' = (pagerFailed \/ res.err \in PagerErrors)
          /\ endedEarly' = (endedEarly \/
                              (res.err = "EndOfResults" /\ p.count < p.max))
    /\ UNCHANGED gm
    /\ UNCHANGED pagerLog
    /\ UNCHANGED extraVars
    /\ UNCHANGED <<cacheVars, workerVars, cancelled, recvd, responses, imgReqs,
                   submitted, sentFor, panicked, closes>>

\* lines 169-172: responses <- imgResponse{err: err}; continue
HSendErr ==
    /\ hpc = "senderr"
    /\ Len(responses) < p.max
    /\ responses' = Append(responses, MkResp(0, herr))
    /\ herr' = "nil"
    /\ hpc' = "next"
    /\ UNCHANGED gm
    /\ UNCHANGED pagerLog
    /\ UNCHANGED extraVars
    /\ UNCHANGED <<cacheVars, workerVars, p, hurl, cancelled, recvd, imgReqs,
                   historyVars, panicked>>

\* lines 175-180: imgReqs <- &imgRequest{...}
HSubmit ==
    /\ hpc = "submit"
    /\ Len(imgReqs) < Buffer
    /\ imgReqs' = Append(imgReqs, [url |-> hurl, req |-> submitted + 1])
    /\ submitted' = submitted + 1
    /\ hurl' = NoURL
    /\ hpc' = "next"
    /\ UNCHANGED gm
    /\ UNCHANGED pagerLog
    /\ UNCHANGED extraVars
    /\ UNCHANGED <<cacheVars, workerVars, p, herr, cancelled, recvd, responses,
                   sentFor, pagerFailed, endedEarly, panicked, closes>>

\* a handler that stops reading one response short of max
HDoneEarly ==
    /\ hpc = "aggregate"
    /\ recvd >= p.max - 1
    /\ hpc' = "done"
    /\ UNCHANGED gm
    /\ UNCHANGED pagerLog
    /\ UNCHANGED extraVars
    /\ UNCHANGED <<cacheVars, workerVars, p, herr, hurl, cancelled, recvd,
                   responses, imgReqs, historyVars, panicked>>

\* lines 183-197, one round of the loop: resp := <-responses
HRecv ==
    /\ hpc = "aggregate"
    /\ recvd < p.max
    /\ Len(responses) > 0
    /\ responses' = Tail(responses)
    /\ recvd' = recvd + 1
    /\ UNCHANGED gm
    /\ UNCHANGED pagerLog
    /\ UNCHANGED extraVars
    /\ UNCHANGED <<cacheVars, workerVars, p, hpc, herr, hurl, cancelled,
                   imgReqs, historyVars, panicked>>

\* lines 183-198: the loop ends at i = max and the handler returns
HDone ==
    /\ hpc = "aggregate"
    /\ recvd >= p.max
    /\ hpc' = "done"
    /\ UNCHANGED gm
    /\ UNCHANGED pagerLog
    /\ UNCHANGED extraVars
    /\ UNCHANGED <<cacheVars, workerVars, p, herr, hurl, cancelled, recvd,
                   responses, imgReqs, historyVars, panicked>>

\* line 144: the context's 20 seconds are over, ctx.Done() is closed
DeadlineElapse ==
    /\ ~cancelled
    /\ hpc # "done"
    /\ cancelled' = TRUE
    /\ UNCHANGED gm
    /\ UNCHANGED pagerLog
    /\ UNCHANGED extraVars
    /\ UNCHANGED <<cacheVars, workerVars, handlerVars, responses, imgReqs,
                   historyVars, panicked>>

(* -------------------------- the worker of 07.go ----------------------- *)

\* line 103: for req := range in
WRecv(w) ==
    /\ pc[w] = "idle"
    /\ Len(imgReqs) > 0
    /\ imgReqs' = Tail(imgReqs)
    /\ wurl' = [wurl EXCEPT ![w] = Head(imgReqs).url]
    /\ wreq' = [wreq EXCEPT ![w] = Head(imgReqs).req]
    /\ pc' = [pc EXCEPT ![w] = "get"]
    /\ UNCHANGED gm
    /\ UNCHANGED pagerLog
    /\ UNCHANGED extraVars
    /\ UNCHANGED <<cacheVars, wresp, wok, localResponse, handlerVars, cancelled,
                   responses, historyVars, panicked>>

\* line 107: resp, ok := cache.Get(req.url)
WGet(w) ==
    /\ pc[w] = "get"
    /\ CanRLock(mutex)
    /\ wresp' = [wresp EXCEPT ![w] = CacheGet(cache, wurl[w]).resp]
    /\ wok' = [wok EXCEPT ![w] = CacheGet(cache, wurl[w]).ok]
    /\ pc' = [pc EXCEPT ![w] = IF CacheGet(cache, wurl[w]).ok
                                THEN "send" ELSE "compute"]
    /\ UNCHANGED gm
    /\ UNCHANGED pagerLog
    /\ UNCHANGED extraVars
    /\ UNCHANGED <<cacheVars, wurl, wreq, localResponse, handlerVars, cancelled,
                   responses, imgReqs, historyVars, panicked>>

\* a worker whose FirstColor moves the pager's cursor
WComputeTouchesPager(w) ==
    /\ pc[w] = "compute"
    /\ \E r \in FirstColor(wurl[w], cancelled) :
          wresp' = [wresp EXCEPT ![w] = r]
    /\ pc' = [pc EXCEPT ![w] = "add"]
    /\ p' = [p EXCEPT !.i = 0]
    /\ UNCHANGED gm
    /\ UNCHANGED pagerLog
    /\ UNCHANGED extraVars
    /\ UNCHANGED <<cacheVars, wurl, wok, wreq, localResponse, hpc, herr, hurl,
                   recvd, cancelled, responses, imgReqs, historyVars, panicked>>

\* line 111: _, resp.hex, resp.err = req.p.FirstColor(req.url)
WCompute(w) ==
    /\ pc[w] = "compute"
    /\ \E r \in FirstColor(wurl[w], cancelled) :
          wresp' = [wresp EXCEPT ![w] = r]
    /\ pc' = [pc EXCEPT ![w] = "add"]
    /\ UNCHANGED gm
    /\ UNCHANGED pagerLog
    /\ UNCHANGED extraVars
    /\ UNCHANGED <<cacheVars, wurl, wok, wreq, localResponse, handlerVars,
                   cancelled, responses, imgReqs, historyVars, panicked>>

\* line 113: cache.Add(req.url, resp)
WAdd(w) ==
    /\ pc[w] = "add"
    /\ CanLock(mutex)
    /\ cache' = CacheAdd(cache, wurl[w], wresp[w])
    /\ addLog' = Append(addLog, [url |-> wurl[w], resp |-> wresp[w],
                                 victim |-> AddVictim(cache)])
    /\ pc' = [pc EXCEPT ![w] = "send"]
    /\ UNCHANGED gm
    /\ UNCHANGED pagerLog
    /\ UNCHANGED extraVars
    /\ UNCHANGED <<mutex, wurl, wresp, wok, wreq, localResponse, handlerVars,
                   cancelled, responses, imgReqs, historyVars, panicked>>

\* a worker that only logs a failed task and sends no response for it
WSendSkipErrors(w) ==
    /\ pc[w] = "send"
    /\ wresp[w].err # "nil" \/ Len(responses) < p.max
    /\ responses' = IF wresp[w].err # "nil" THEN responses
                    ELSE Append(responses, wresp[w])
    /\ sentFor' = IF wresp[w].err # "nil" THEN sentFor
                  ELSE [sentFor EXCEPT ![wreq[w]] = @ + 1]
    /\ pc' = [pc EXCEPT ![w] = "idle"]
    /\ wurl' = [wurl EXCEPT ![w] = NoURL]
    /\ wresp' = [wresp EXCEPT ![w] = ZeroResp]
    /\ wok' = [wok EXCEPT ![w] = FALSE]
    /\ wreq' = [wreq EXCEPT ![w] = NoReq]
    /\ UNCHANGED gm
    /\ UNCHANGED pagerLog
    /\ UNCHANGED extraVars
    /\ UNCHANGED <<cacheVars, localResponse, handlerVars, cancelled, imgReqs,
                   submitted, pagerFailed, endedEarly, panicked, closes>>

\* line 117: req.responses <- resp
WSend(w) ==
    /\ pc[w] = "send"
    /\ Len(responses) < p.max
    /\ responses' = Append(responses, wresp[w])
    /\ sentFor' = [sentFor EXCEPT ![wreq[w]] = @ + 1]
    /\ pc' = [pc EXCEPT ![w] = "idle"]
    /\ wurl' = [wurl EXCEPT ![w] = NoURL]
    /\ wresp' = [wresp EXCEPT ![w] = ZeroResp]
    /\ wok' = [wok EXCEPT ![w] = FALSE]
    /\ wreq' = [wreq EXCEPT ![w] = NoReq]
    /\ UNCHANGED gm
    /\ UNCHANGED pagerLog
    /\ UNCHANGED extraVars
    /\ UNCHANGED <<cacheVars, localResponse, handlerVars, cancelled, imgReqs,
                   submitted, pagerFailed, endedEarly, panicked, closes>>

Init ==
    /\ cache = newColorCache(CacheCap)
    /\ mutex = NewMutex
    /\ addLog = <<>>
    /\ pc = [t \in Workers |-> "idle"]
    /\ wurl = [t \in Workers |-> NoURL]
    /\ wresp = [t \in Workers |-> ZeroResp]
    /\ wok = [t \in Workers |-> FALSE]
    /\ InitPipe
    /\ InitExtra

\* the steps of the handler and of the workers
Progress ==
    \/ HNext
    \/ HSendErr
    \/ HSubmit
    \/ HRecv
    \/ HDone
    \/ \E w \in Workers : WRecv(w) \/ WGet(w) \/ WCompute(w) \/ WAdd(w) \/ WSend(w)

Next ==
    \/ Progress
    \/ DeadlineElapse

Spec == Init /\ [][Next]_vars

(* -------------------------- the worker of 06.go ----------------------- *)

\* lines 46-57: for req := range imgReqs; the worker makes localResponse and
\* starts the goroutine that computes the colour
W6Recv(w) ==
    /\ pc[w] = "idle"
    /\ Len(imgReqs) > 0
    /\ imgReqs' = Tail(imgReqs)
    /\ wurl' = [wurl EXCEPT ![w] = Head(imgReqs).url]
    /\ wreq' = [wreq EXCEPT ![w] = Head(imgReqs).req]
    /\ localResponse' = [localResponse EXCEPT ![w] = NoResp]
    /\ pc' = [pc EXCEPT ![w] = "spawned"]
    /\ UNCHANGED gm
    /\ UNCHANGED pagerLog
    /\ UNCHANGED extraVars
    /\ UNCHANGED <<cacheVars, wresp, wok, handlerVars, cancelled, responses,
                   historyVars, panicked>>

\* lines 49-57: the goroutine's FirstColor returns and it sends the result on
\* localResponse. A worker blocked in the select is woken by this send and
\* takes the first case.
W6ComputeDone(w) ==
    /\ pc[w] \in {"spawned", "select"}
    /\ localResponse[w] = NoResp
    /\ \E r \in FirstColor(wurl[w], cancelled) :
          localResponse' = [localResponse EXCEPT ![w] = r]
    /\ pc' = [pc EXCEPT ![w] = IF @ = "select" THEN "case_resp" ELSE @]
    /\ UNCHANGED gm
    /\ UNCHANGED pagerLog
    /\ UNCHANGED extraVars
    /\ UNCHANGED <<cacheVars, wurl, wresp, wok, wreq, handlerVars, cancelled,
                   responses, imgReqs, historyVars, panicked>>

\* line 60: the worker reaches the select. It takes one of the cases that are
\* ready, any of them when several are, and blocks when none is; the timer
\* of time.After has just been started and is not ready.
W6Select(w) ==
    /\ pc[w] = "spawned"
    /\ \E next \in {"case_resp", "case_cancel", "select"} :
          /\ next = "case_resp" => localResponse[w] # NoResp
          /\ next = "case_cancel" => cancelled
          /\ next = "select" => (localResponse[w] = NoResp /\ ~cancelled)
          /\ pc' = [pc EXCEPT ![w] = next]
    /\ UNCHANGED gm
    /\ UNCHANGED pagerLog
    /\ UNCHANGED extraVars
    /\ UNCHANGED <<cacheVars, wurl, wresp, wok, wreq, localResponse,
                   handlerVars, cancelled, responses, imgReqs, historyVars,
                   panicked>>

\* line 67: the two seconds pass while the worker is blocked in the select
W6Timeout(w) ==
    /\ pc[w] = "select"
    /\ pc' = [pc EXCEPT ![w] = "case_timeout"]
    /\ UNCHANGED gm
    /\ UNCHANGED pagerLog
    /\ UNCHANGED extraVars
    /\ UNCHANGED <<cacheVars, wurl, wresp, wok, wreq, localResponse,
                   handlerVars, cancelled, responses, imgReqs, historyVars,
                   panicked>>

\* lines 61-63: case resp := <-localResponse: req.responses <- resp
W6CaseResp(w) ==
    /\ pc[w] = "case_resp"
    /\ Len(responses) < p.max
    /\ responses' = Append(responses, localResponse[w])
    /\ sentFor' = [sentFor EXCEPT ![wreq[w]] = @ + 1]
    /\ pc' = [pc EXCEPT ![w] = "idle"]
    /\ wurl' = [wurl EXCEPT ![w] = NoURL]
    /\ wreq' = [wreq EXCEPT ![w] = NoReq]
    /\ localResponse' = [localResponse EXCEPT ![w] = NoResp]
    /\ UNCHANGED gm
    /\ UNCHANGED pagerLog
    /\ UNCHANGED extraVars
    /\ UNCHANGED <<cacheVars, wresp, wok, handlerVars, cancelled, imgReqs,
                   submitted, pagerFailed, endedEarly, panicked, closes>>

\* lines 64-65: case <-req.cancel: break. Nothing is sent for the request.
W6CaseCancel(w) ==
    /\ pc[w] = "case_cancel"
    /\ pc' = [pc EXCEPT ![w] = "idle"]
    /\ wurl' = [wurl EXCEPT ![w] = NoURL]
    /\ wreq' = [wreq EXCEPT ![w] = NoReq]
    /\ localResponse' = [localResponse EXCEPT ![w] = NoResp]
    /\ UNCHANGED gm
    /\ UNCHANGED pagerLog
    /\ UNCHANGED extraVars
    /\ UNCHANGED <<cacheVars, wresp, wok, handlerVars, cancelled, responses,
                   imgReqs, historyVars, panicked>>

\* line 70: close(req.cancel). Closing a closed channel panics; the first
\* close wakes every worker blocked in the select, which takes the cancel case.
W6CloseCancel(w) ==
    /\ pc[w] = "case_timeout"
    /\ closes' = closes + 1
    /\ IF cancelled
       THEN /\ panicked' = TRUE
            /\ pc' = [v \in Workers |-> "crashed"]
            /\ hpc' = "crashed"
            /\ UNCHANGED cancelled
       ELSE /\ cancelled' = TRUE
            /\ pc' = [v \in Workers |->
                        IF v = w THEN "timeout_send"
                        ELSE IF pc[v] = "select" THEN "case_cancel" ELSE pc[v]]
            /\ UNCHANGED <<panicked, hpc>>
    /\ UNCHANGED gm
    /\ UNCHANGED pagerLog
    /\ UNCHANGED extraVars
    /\ UNCHANGED <<cacheVars, wurl, wresp, wok, wreq, localResponse,
                   p, herr, hurl, recvd, responses, imgReqs, submitted,
                   sentFor, pagerFailed, endedEarly>>

\* lines 71-73: req.responses <- imgResponse{err: errors.New("timeout")}
W6TimeoutSend(w) ==
    /\ pc[w] = "timeout_send"
    /\ Len(responses) < p.max
    /\ responses' = Append(responses, MkResp(0, "timeout"))
    /\ sentFor' = [sentFor EXCEPT ![wreq[w]] = @ + 1]
    /\ pc' = [pc EXCEPT ![w] = "idle"]
    /\ wurl' = [wurl EXCEPT ![w] = NoURL]
    /\ wreq' = [wreq EXCEPT ![w] = NoReq]
    /\ localResponse' = [localResponse EXCEPT ![w] = NoResp]
    /\ UNCHANGED gm
    /\ UNCHANGED pagerLog
    /\ UNCHANGED extraVars
    /\ UNCHANGED <<cacheVars, wresp, wok, handlerVars, cancelled, imgReqs,
                   submitted, pagerFailed, endedEarly, panicked, closes>>

\* a panic ends the process: every goroutine is at "crashed" and no action
\* is enabled
Next06 ==
    \/ HNext
    \/ HSendErr
    \/ HSubmit
    \/ HRecv
    \/ HDone
    \/ \E w \in Workers :
          \/ W6Recv(w)
          \/ W6ComputeDone(w)
          \/ W6Select(w)
          \/ W6Timeout(w)
          \/ W6CaseResp(w)
          \/ W6CaseCancel(w)
          \/ W6CloseCancel(w)
          \/ W6TimeoutSend(w)

Spec06 == Init /\ [][Next06]_vars

(* ------------------------ a loop over the pager ----------------------- *)

\* the max a Puller of SpecPager is created with: small budgets, and budgets
\* around the most the API hands out per request
Budgets == (0..MaxImg) \cup (apiMax..(apiMax + LimitOver))

\* n images of the upstream listing after position off, with the continue
\* values of the position reached
ListingPage(off, n) ==
    MkPage([j \in 1..n |-> CatURL(off + j)],
           IF off + n < CatLen THEN off + n ELSE 0,
           IF off + n < CatLen THEN off + n ELSE 0)

\* every answer the upstream of SpecPager can give to the request of pp: the
\* answers of UpstreamPages, the page with one of its continue values
\* missing, and a page with more images than were asked for
PagerPages(pp) ==
    UpstreamPages(pp)
    \cup {[UpstreamPage(ReqOffset(pp), Ailimit(pp)) EXCEPT !.cont = 0],
          [UpstreamPage(ReqOffset(pp), Ailimit(pp)) EXCEPT !.aicont = 0],
          ListingPage(ReqOffset(pp),
                      Min(Min(Ailimit(pp), PageSize) + 1, CatLen - ReqOffset(pp)))}

\* p := wikimg.NewPuller(max)
InitPager ==
    /\ cache = newColorCache(CacheCap)
    /\ mutex = NewMutex
    /\ addLog = <<>>
    /\ pc = [t \in Workers |-> "idle"]
    /\ wurl = [t \in Workers |-> NoURL]
    /\ wresp = [t \in Workers |-> ZeroResp]
    /\ wok = [t \in Workers |-> FALSE]
    /\ \E n \in Budgets : InitPipeWith(n)
    /\ InitExtra

\* imgURL, err := p.Next(), once more, with the Cancel channel closed or not
PCall(isCancelled) ==
    /\ \E res \in PullerNextFrom(p, isCancelled, PagerPages(p)) :
          /\ p' = res.p
          /\ plast' = [err |-> res.err, url |-> res.url, reqs |-> res.reqs,
                       tick |-> 1 - plast.tick]
          /\ pret' = IF res.err = "nil" THEN pret + 1 ELSE pret
          /\ pended' = (pended \/ res.err = "EndOfResults")
          /\ pagerFailed' = (pagerFailed \/ res.err \in PagerErrors)
          /\ endedEarly' = (endedEarly \/
                              (res.err = "EndOfResults" /\ p.count < p.max))
    /\ UNCHANGED <<cacheVars, workerVars, hpc, herr, hurl, recvd, cancelled,
                   responses, imgReqs, submitted, sentFor, panicked, closes, gm,
                   extraVars>>

\* imgURL, err := p.NextURL(), once more: NextURL knows no Cancel channel
PNext == PCall(FALSE)

SpecPager == InitPager /\ [][PNext]_vars

(* --------------------- a pager with a Cancel channel ------------------ *)

\* p := wikimg.NewPuller(max); p.Cancel = cancel
InitCancel ==
    /\ cache = newColorCache(CacheCap)
    /\ mutex = NewMutex
    /\ addLog = <<>>
    /\ pc = [t \in Workers |-> "idle"]
    /\ wurl = [t \in Workers |-> NoURL]
    /\ wresp = [t \in Workers |-> ZeroResp]
    /\ wok = [t \in Workers |-> FALSE]
    /\ \E n \in 0..MaxImg : InitPipeWith(n)
    /\ InitExtra

\* imgURL, err := p.Next(), once more (part_001, lines 97-176)
PNextC == PCall(cancelled)

\* the owner of the Cancel channel closes it
PCancel ==
    /\ ~cancelled
    /\ cancelled' = TRUE
    /\ UNCHANGED <<cacheVars, workerVars, handlerVars, responses, imgReqs,
                   historyVars, panicked, gm, pagerLog, extraVars>>

\* _, hex, err := p.FirstColor(url), once more (part_001, lines 186-260)
PFirstColor ==
    /\ \E u \in URLs : \E r \in FirstColor(u, cancelled) :
          fclast' = [err |-> r.err, tick |-> 1 - fclast.tick]
    /\ UNCHANGED <<cacheVars, workerVars, handlerVars, cancelled, responses,
                   imgReqs, historyVars, panicked, gm, pagerLog, qclosed, qcap,
                   wgn, recvFor, nreqs,
                   moreVars>>

NextCancel ==
    \/ PNextC
    \/ PCancel
    \/ PFirstColor

SpecCancel == InitCancel /\ [][NextCancel]_vars

(* ----------------- one request of 05.go without failures -------------- *)

\* the upstream's answers in the end-to-end case: a listing of E2EMax
\* images, each its own URL, served E2EPage to a page; the upstream keeps to
\* the request's ailimit or serves its full page
E2EPageOf(off, n) ==
    MkPage([j \in 1..n |-> off + j],
           IF off + n < E2EMax THEN off + n ELSE 0,
           IF off + n < E2EMax THEN off + n ELSE 0)

E2EPages(pp) ==
    {E2EPageOf(ReqOffset(pp),
               Min(Min(Ailimit(pp), E2EPage), E2EMax - ReqOffset(pp))),
     E2EPageOf(ReqOffset(pp), Min(E2EPage, E2EMax - ReqOffset(pp)))}

\* 05.go, lines 62-66: the handler's Puller and response channel
InitE2E ==
    /\ cache = newColorCache(CacheCap)
    /\ mutex = NewMutex
    /\ addLog = <<>>
    /\ pc = [t \in Workers |-> "idle"]
    /\ wurl = [t \in Workers |-> NoURL]
    /\ wresp = [t \in Workers |-> ZeroResp]
    /\ wok = [t \in Workers |-> FALSE]
    /\ wreq = [t \in Workers |-> NoReq]
    /\ localResponse = [t \in Workers |-> NoResp]
    /\ p = NewPuller(E2EMax)
    /\ cancelled = FALSE
    /\ hpc = "next"
    /\ herr = "nil"
    /\ hurl = NoURL
    /\ recvd = 0
    /\ responses = <<>>
    /\ imgReqs = <<>>
    /\ submitted = 0
    /\ sentFor = [r \in 1..E2EMax |-> 0]
    /\ pagerFailed = FALSE
    /\ endedEarly = FALSE
    /\ panicked = FALSE
    /\ closes = 0
    /\ gm = [t \in Workers |-> NoMulti]
    /\ plast = NoCall
    /\ pret = 0
    /\ pended = FALSE
    /\ fclast = NoColorCall
    /\ qclosed = FALSE
    /\ qcap = Buffer
    /\ wgn = 0
    /\ recvFor = [r \in 1..E2EMax |-> 0]
    /\ nreqs = 0
    /\ InitMore

\* 05.go, lines 76-95: imgURL, err := p.Next() and the branch on err,
\* against an upstream that answers every request
H5Next ==
    /\ hpc = "next"
    /\ \E res \in PullerNextFrom(p, FALSE, E2EPages(p)) :
          /\ res.err \notin PagerErrors
          /\ p' = res.p
          /\ hurl' = res.url
          /\ hpc' = IF res.err = "EndOfResults" THEN "aggregate" ELSE "submit"
          /\ endedEarly' = (endedEarly \/
                              (res.err = "EndOfResults" /\ p.count < p.max))
          /\ nreqs' = nreqs + Len(res.reqs)
    /\ UNCHANGED <<cacheVars, workerVars, herr, cancelled, recvd, responses,
                   imgReqs, submitted, sentFor, pagerFailed, panicked, closes,
                   gm, pagerLog, fclast, qclosed, qcap, wgn, recvFor,
                   moreVars>>

\* 05.go, line 43: for req := range in
W5Recv(w) ==
    /\ pc[w] = "idle"
    /\ Len(imgReqs) > 0
    /\ imgReqs' = Tail(imgReqs)
    /\ wurl' = [wurl EXCEPT ![w] = Head(imgReqs).url]
    /\ wreq' = [wreq EXCEPT ![w] = Head(imgReqs).req]
    /\ pc' = [pc EXCEPT ![w] = "compute"]
    /\ UNCHANGED <<cacheVars, wresp, wok, localResponse, handlerVars,
                   cancelled, responses, historyVars, panicked, gm, pagerLog,
                   extraVars>>

\* 05.go, lines 45-51: FirstColor, which does not fail in this case, and the
\* response built from it
W5Compute(w) ==
    /\ pc[w] = "compute"
    /\ \E r \in FirstColor(wurl[w], FALSE) :
          /\ r.err = "nil"
          /\ wresp' = [wresp EXCEPT ![w] = r]
    /\ pc' = [pc EXCEPT ![w] = "send"]
    /\ UNCHANGED <<cacheVars, wurl, wok, wreq, localResponse, handlerVars,
                   cancelled, responses, imgReqs, historyVars, panicked, gm,
                   pagerLog, extraVars>>

NextE2E ==
    \/ H5Next
    \/ HSubmit
    \/ HRecv
    \/ HDone
    \/ \E w \in Workers : W5Recv(w) \/ W5Compute(w) \/ WSend(w)

SpecE2E == InitE2E /\ [][NextE2E]_vars


(* --------------------------- wikimg.firstColor ------------------------ *)

\* the colours a pixel can have: one whose nearest palette entry is a gray
\* although its own red, green and blue differ, and two with a coloured entry
Pixels == {"offgray", "red", "blue"}

\* p.Index(img.At(x, y)), then p[xtermColor]: the palette entry nearest to the
\* pixel's colour
PalIndex(c) == IF c = "offgray" THEN "gray" ELSE c

\* rgba.R == rgba.G && rgba.G == rgba.B
IsGray(c) == c = "gray"

\* the images image.Decode can return: at[x + 1][y + 1] is img.At(x, y)
Images ==
    UNION {[dx : {w}, dy : {h}, at : [1..w -> [1..h -> Pixels]]] :
             w \in 1..ImgDim, h \in 1..ImgDim}

\* wikimg.go, lines 186-202: the image is decoded and the loops begin
InitColor ==
    /\ cache = newColorCache(CacheCap)
    /\ mutex = NewMutex
    /\ addLog = <<>>
    /\ pc = [t \in Workers |-> "idle"]
    /\ wurl = [t \in Workers |-> NoURL]
    /\ wresp = [t \in Workers |-> ZeroResp]
    /\ wok = [t \in Workers |-> FALSE]
    /\ InitPipe
    /\ fclast = NoColorCall
    /\ qclosed = FALSE
    /\ qcap = Buffer
    /\ wgn = 0
    /\ recvFor = [r \in Requests |-> 0]
    /\ nreqs = 0
    /\ img \in Images
    /\ fx = 0
    /\ fy = 0
    /\ fcol = "none"
    /\ fpc = "loop"
    /\ rcap = 0
    /\ orphans = 0
    /\ late = 0
    /\ ses = <<>>
    /\ wses = [t \in Workers |-> NoSession]

\* lines 202-228, one round of the inner loop: the pixel's palette colour is
\* assigned; break, or the end of the column, goes on with the next x
FCPixel ==
    /\ fpc = "loop"
    /\ fx < img.dx
    /\ LET c == PalIndex(img.at[fx + 1][fy + 1])
       IN /\ fcol' = c
          /\ IF ~IsGray(c) \/ fy + 1 >= img.dy
             THEN fx' = fx + 1 /\ fy' = 0
             ELSE fx' = fx /\ fy' = fy + 1
    /\ UNCHANGED <<cacheVars, workerVars, pipeVars, gm, pagerLog, fclast,
                   qclosed, qcap, wgn, recvFor, nreqs, img, fpc, rcap, orphans,
                   late, ses, wses>>

\* lines 202 and 230: x has reached rect.Dx() and the function returns
FCReturn ==
    /\ fpc = "loop"
    /\ fx >= img.dx
    /\ fpc' = "returned"
    /\ UNCHANGED <<cacheVars, workerVars, pipeVars, gm, pagerLog, fclast,
                   qclosed, qcap, wgn, recvFor, nreqs, img, fx, fy, fcol, rcap,
                   orphans, late, ses, wses>>

NextColor ==
    \/ FCPixel
    \/ FCReturn

SpecColor == InitColor /\ [][NextColor]_vars


(* ------------- the worker with a timeout wrapper (part_006) ----------- *)

\* lines 84-88: p := wikimg.NewPuller(max) and the responses channel of a
\* request
InitWrap ==
    /\ cache = newColorCache(CacheCap)
    /\ mutex = NewMutex
    /\ addLog = <<>>
    /\ pc = [t \in Workers |-> "idle"]
    /\ wurl = [t \in Workers |-> NoURL]
    /\ wresp = [t \in Workers |-> ZeroResp]
    /\ wok = [t \in Workers |-> FALSE]
    /\ InitPipeWith(WrapMax)
    /\ InitExtra

\* lines 71-74 and 32-43: for req := range imgReqs; firstColor makes its
\* responses channel of capacity 1 and starts the computation
TRecv(w) ==
    /\ pc[w] = "idle"
    /\ Len(imgReqs) > 0
    /\ imgReqs' = Tail(imgReqs)
    /\ wurl' = [wurl EXCEPT ![w] = Head(imgReqs).url]
    /\ wreq' = [wreq EXCEPT ![w] = Head(imgReqs).req]
    /\ localResponse' = [localResponse EXCEPT ![w] = NoResp]
    /\ pc' = [pc EXCEPT ![w] = "spawned"]
    /\ UNCHANGED <<cacheVars, wresp, wok, handlerVars, cancelled, responses,
                   historyVars, panicked, gm, pagerLog, extraVars>>

\* lines 36-43: wikimg.FirstColor returns and the goroutine sends the result
\* into the free place of the channel; a caller waiting in the select is
\* woken and takes the first case
TComputeDone(w) ==
    /\ pc[w] \in {"spawned", "select"}
    /\ localResponse[w] = NoResp
    /\ \E r \in FirstColor(wurl[w], FALSE) :
          localResponse' = [localResponse EXCEPT ![w] = r]
    /\ pc' = [pc EXCEPT ![w] = IF @ = "select" THEN "case_resp" ELSE @]
    /\ UNCHANGED <<cacheVars, wurl, wresp, wok, wreq, handlerVars, cancelled,
                   responses, imgReqs, historyVars, panicked, gm, pagerLog,
                   extraVars>>

\* line 46: the caller reaches the select; the timer of time.After has just
\* been started, so only the first case can be ready
TSelect(w) ==
    /\ pc[w] = "spawned"
    /\ pc' = [pc EXCEPT ![w] =
                IF localResponse[w] # NoResp THEN "case_resp" ELSE "select"]
    /\ UNCHANGED <<cacheVars, wurl, wresp, wok, wreq, localResponse,
                   handlerVars, cancelled, responses, imgReqs, historyVars,
                   panicked, gm, pagerLog, extraVars>>

\* lines 47 and 53: case resp = <-responses; return resp
TCaseResp(w) ==
    /\ pc[w] = "case_resp"
    /\ wresp' = [wresp EXCEPT ![w] = localResponse[w]]
    /\ localResponse' = [localResponse EXCEPT ![w] = NoResp]
    /\ pc' = [pc EXCEPT ![w] = "send"]
    /\ UNCHANGED <<cacheVars, wurl, wok, wreq, handlerVars, cancelled,
                   responses, imgReqs, historyVars, panicked, gm, pagerLog,
                   extraVars>>

\* lines 49-53: the timeout passes while the caller waits in the select; it
\* returns the timeout error and leaves the computation running
TTimeout(w) ==
    /\ pc[w] = "select"
    /\ wresp' = [wresp EXCEPT ![w] = MkResp(0, "timeout")]
    /\ orphans' = orphans + 1
    /\ pc' = [pc EXCEPT ![w] = "send"]
    /\ UNCHANGED <<cacheVars, wurl, wok, wreq, localResponse, handlerVars,
                   cancelled, responses, imgReqs, historyVars, panicked, gm,
                   pagerLog, fclast, qclosed, qcap, wgn, recvFor, nreqs, img,
                   fx, fy, fcol, fpc, rcap, late, ses, wses>>

\* a computation left behind whose channel has no buffer: its send waits
\* for a receiver that does not come
TOrphanDoneUnbuffered ==
    /\ orphans > 0
    /\ FALSE
    /\ UNCHANGED vars

\* lines 37-42: a computation left behind returns and sends its result into
\* the free place of its channel, which nobody reads
TOrphanDone ==
    /\ orphans > 0
    /\ orphans' = orphans - 1
    /\ late' = late + 1
    /\ UNCHANGED <<cacheVars, workerVars, handlerVars, cancelled, responses,
                   imgReqs, historyVars, panicked, gm, pagerLog, fclast,
                   qclosed, qcap, wgn, recvFor, nreqs, img, fx, fy, fcol, fpc,
                   rcap, ses, wses>>

NextWrap ==
    \/ HNext
    \/ HSendErr
    \/ HSubmit
    \/ HRecv
    \/ HDone
    \/ TOrphanDone
    \/ \E w \in Workers :
          \/ TRecv(w)
          \/ TComputeDone(w)
          \/ TSelect(w)
          \/ TCaseResp(w)
          \/ TTimeout(w)
          \/ WSend(w)

SpecWrap == InitWrap /\ [][NextWrap]_vars


(* ------------- the batch program with a WaitGroup (part_002) ---------- *)

\* the goroutines main starts: workers >= 1 of them
Pools == (SUBSET Workers) \ {{}}

\* lines 25-58: the Puller, the channel of capacity buffer, and the workers
\* started, each counted by wg.Add(1); the workers not started are "off"
InitBatch ==
    /\ cache = newColorCache(CacheCap)
    /\ mutex = NewMutex
    /\ addLog = <<>>
    /\ \E pool \in Pools :
          /\ pc = [t \in Workers |-> IF t \in pool THEN "idle" ELSE "off"]
          /\ wgn = Cardinality(pool)
    /\ wurl = [t \in Workers |-> NoURL]
    /\ wresp = [t \in Workers |-> ZeroResp]
    /\ wok = [t \in Workers |-> FALSE]
    /\ InitPipe
    /\ fclast = NoColorCall
    /\ qclosed = FALSE
    /\ qcap \in 0..Buffer
    /\ recvFor = [r \in Requests |-> 0]
    /\ nreqs = 0
    /\ InitMore

\* lines 61-72: imgURL, err := p.Next(); break on EndOfResults, log any
\* other error and call again
BNext ==
    /\ hpc = "next"
    /\ \E res \in PullerNext(p, FALSE) :
          /\ p' = res.p
          /\ hurl' = res.url
          /\ hpc' = IF res.err = "EndOfResults" THEN "close"
                    ELSE IF res.err = "nil" THEN "submit" ELSE "next"
          /\ pagerFailed' = (pagerFailed \/ res.err \in PagerErrors)
          /\ endedEarly' = (endedEarly \/
                              (res.err = "EndOfResults" /\ p.count < p.max))
    /\ UNCHANGED <<cacheVars, workerVars, herr, recvd, cancelled, responses,
                   imgReqs, submitted, sentFor, panicked, closes, gm, pagerLog,
                   extraVars>>

\* line 75: imgURLs <- imgURL, into a free place of the buffer
BSubmit ==
    /\ hpc = "submit"
    /\ Len(imgReqs) < qcap
    /\ imgReqs' = Append(imgReqs, [url |-> hurl, req |-> submitted + 1])
    /\ submitted' = submitted + 1
    /\ hurl' = NoURL
    /\ hpc' = "next"
    /\ UNCHANGED <<cacheVars, workerVars, p, herr, recvd, cancelled, responses,
                   sentFor, pagerFailed, endedEarly, panicked, closes, gm,
                   pagerLog, extraVars>>

\* lines 75 and 41: a channel without buffer passes the URL from the sender
\* to a worker that waits in its range
BHandoff(w) ==
    /\ hpc = "submit"
    /\ qcap = 0
    /\ pc[w] = "idle"
    /\ submitted' = submitted + 1
    /\ hurl' = NoURL
    /\ hpc' = "next"
    /\ wurl' = [wurl EXCEPT ![w] = hurl]
    /\ wreq' = [wreq EXCEPT ![w] = submitted + 1]
    /\ recvFor' = [recvFor EXCEPT ![submitted + 1] = @ + 1]
    /\ pc' = [pc EXCEPT ![w] = "compute"]
    /\ UNCHANGED <<cacheVars, wresp, wok, localResponse, p, herr, recvd,
                   cancelled, responses, imgReqs, sentFor, pagerFailed,
                   endedEarly, panicked, closes, gm, pagerLog, fclast, qclosed,
                   qcap, wgn, nreqs,
                   moreVars>>

\* line 81: close(imgURLs)
BClose ==
    /\ hpc = "close"
    /\ qclosed' = TRUE
    /\ hpc' = "wait"
    /\ UNCHANGED <<cacheVars, workerVars, p, herr, hurl, recvd, cancelled,
                   responses, imgReqs, historyVars, panicked, gm, pagerLog,
                   fclast, qcap, wgn, recvFor, nreqs,
                   moreVars>>

\* a worker that looks at the head of the channel and leaves it there
BRecvPeek(w) ==
    /\ pc[w] = "idle"
    /\ Len(imgReqs) > 0
    /\ wurl' = [wurl EXCEPT ![w] = Head(imgReqs).url]
    /\ wreq' = [wreq EXCEPT ![w] = Head(imgReqs).req]
    /\ recvFor' = [recvFor EXCEPT ![Head(imgReqs).req] = @ + 1]
    /\ pc' = [pc EXCEPT ![w] = "compute"]
    /\ UNCHANGED <<cacheVars, wresp, wok, localResponse, handlerVars,
                   cancelled, responses, imgReqs, historyVars, panicked, gm,
                   pagerLog, fclast, qclosed, qcap, wgn, nreqs,
                   moreVars>>

\* line 41: for imgURL := range imgURLs takes the head of the buffer
BRecv(w) ==
    /\ pc[w] = "idle"
    /\ Len(imgReqs) > 0
    /\ imgReqs' = Tail(imgReqs)
    /\ wurl' = [wurl EXCEPT ![w] = Head(imgReqs).url]
    /\ wreq' = [wreq EXCEPT ![w] = Head(imgReqs).req]
    /\ recvFor' = [recvFor EXCEPT ![Head(imgReqs).req] = @ + 1]
    /\ pc' = [pc EXCEPT ![w] = "compute"]
    /\ UNCHANGED <<cacheVars, wresp, wok, localResponse, handlerVars,
                   cancelled, responses, historyVars, panicked, gm, pagerLog,
                   fclast, qclosed, qcap, wgn, nreqs,
                   moreVars>>

\* lines 44-51: FirstColor, then the colour is printed or the error logged,
\* and the range goes on either way
BCompute(w) ==
    /\ pc[w] = "compute"
    /\ \E r \in FirstColor(wurl[w], FALSE) :
          fclast' = [err |-> r.err, tick |-> 1 - fclast.tick]
    /\ pc' = [pc EXCEPT ![w] = "idle"]
    /\ wurl' = [wurl EXCEPT ![w] = NoURL]
    /\ wreq' = [wreq EXCEPT ![w] = NoReq]
    /\ UNCHANGED <<cacheVars, wresp, wok, localResponse, handlerVars,
                   cancelled, responses, imgReqs, historyVars, panicked, gm,
                   pagerLog, qclosed, qcap, wgn, recvFor, nreqs,
                   moreVars>>

\* a main that stops waiting while one worker is still counted
BWaitEarly ==
    /\ hpc = "wait"
    /\ wgn <= 1
    /\ hpc' = "done"
    /\ UNCHANGED <<cacheVars, workerVars, p, herr, hurl, recvd, cancelled,
                   responses, imgReqs, historyVars, panicked, gm, pagerLog,
                   extraVars>>

\* lines 52-56: the range ends on the closed and empty channel; wg.Done()
BExit(w) ==
    /\ pc[w] = "idle"
    /\ qclosed
    /\ imgReqs = <<>>
    /\ wgn' = wgn - 1
    /\ pc' = [pc EXCEPT ![w] = "exited"]
    /\ UNCHANGED <<cacheVars, wurl, wresp, wok, wreq, localResponse,
                   handlerVars, cancelled, responses, imgReqs, historyVars,
                   panicked, gm, pagerLog, fclast, qclosed, qcap, recvFor,
                   nreqs,
                   moreVars>>

\* line 84: wg.Wait() returns when the counter is 0, and main returns
BWaitDone ==
    /\ hpc = "wait"
    /\ wgn = 0
    /\ hpc' = "done"
    /\ UNCHANGED <<cacheVars, workerVars, p, herr, hurl, recvd, cancelled,
                   responses, imgReqs, historyVars, panicked, gm, pagerLog,
                   extraVars>>

NextBatch ==
    \/ BNext
    \/ BSubmit
    \/ BClose
    \/ BWaitDone
    \/ \E w \in Workers :
          \/ BHandoff(w)
          \/ BRecv(w)
          \/ BCompute(w)
          \/ BExit(w)

SpecBatch == InitBatch /\ [][NextBatch]_vars

\* every goroutine that can take a step is scheduled in the end
SpecBatchFair == SpecBatch /\ WF_vars(NextBatch)

(* ------------ one round of the background task (part_006) ------------- *)

\* lines 314-327: p := wikimg.NewPuller(bgmax), the context, and
\* responses := make(chan imgResponse, max)
InitBg ==
    /\ cache = newColorCache(CacheCap)
    /\ mutex = NewMutex
    /\ addLog = <<>>
    /\ pc = [t \in Workers |-> "idle"]
    /\ wurl = [t \in Workers |-> NoURL]
    /\ wresp = [t \in Workers |-> ZeroResp]
    /\ wok = [t \in Workers |-> FALSE]
    /\ \E bgmax \in 0..MaxImg : InitPipeWith(bgmax)
    /\ fclast = NoColorCall
    /\ qclosed = FALSE
    /\ qcap = Buffer
    /\ wgn = 0
    /\ recvFor = [r \in Requests |-> 0]
    /\ nreqs = 0
    /\ img = NoImage
    /\ fx = 0
    /\ fy = 0
    /\ fcol = "none"
    /\ fpc = "off"
    /\ rcap \in 0..BgMax
    /\ orphans = 0
    /\ late = 0
    /\ ses = <<>>
    /\ wses = [t \in Workers |-> NoSession]

\* lines 337-340: responses <- imgResponse{err: err}; continue
GSendErr ==
    /\ hpc = "senderr"
    /\ Len(responses) < rcap
    /\ responses' = Append(responses, MkResp(0, herr))
    /\ herr' = "nil"
    /\ hpc' = "next"
    /\ UNCHANGED <<cacheVars, workerVars, p, hurl, cancelled, recvd, imgReqs,
                   historyVars, panicked, gm, pagerLog, extraVars>>

\* lines 351-360, one round of the loop: resp := <-responses
GRecv ==
    /\ hpc = "aggregate"
    /\ recvd < rcap
    /\ Len(responses) > 0
    /\ responses' = Tail(responses)
    /\ recvd' = recvd + 1
    /\ UNCHANGED <<cacheVars, workerVars, p, hpc, herr, hurl, cancelled,
                   imgReqs, historyVars, panicked, gm, pagerLog, extraVars>>

\* lines 351-363: the loop ends at i = max and the task sleeps; the next
\* round makes a new Puller and a new responses channel, and nobody reads
\* this round's channel again
GSleep ==
    /\ hpc = "aggregate"
    /\ recvd >= rcap
    /\ hpc' = "sleep"
    /\ UNCHANGED <<cacheVars, workerVars, p, herr, hurl, recvd, cancelled,
                   responses, imgReqs, historyVars, panicked, gm, pagerLog,
                   extraVars>>

\* line 319: the context's 10 minutes are over during the round
GDeadline ==
    /\ ~cancelled
    /\ hpc # "sleep"
    /\ cancelled' = TRUE
    /\ UNCHANGED <<cacheVars, workerVars, handlerVars, responses, imgReqs,
                   historyVars, panicked, gm, pagerLog, extraVars>>

\* line 285: req.responses <- resp
GSend(w) ==
    /\ pc[w] = "send"
    /\ Len(responses) < rcap
    /\ responses' = Append(responses, wresp[w])
    /\ sentFor' = [sentFor EXCEPT ![wreq[w]] = @ + 1]
    /\ pc' = [pc EXCEPT ![w] = "idle"]
    /\ wurl' = [wurl EXCEPT ![w] = NoURL]
    /\ wresp' = [wresp EXCEPT ![w] = ZeroResp]
    /\ wok' = [wok EXCEPT ![w] = FALSE]
    /\ wreq' = [wreq EXCEPT ![w] = NoReq]
    /\ UNCHANGED <<cacheVars, localResponse, handlerVars, cancelled, imgReqs,
                   submitted, pagerFailed, endedEarly, panicked, closes, gm,
                   pagerLog, extraVars>>

\* lines 329-349 are the handler's loop of 07.go, lines 270-283 its worker
NextBg ==
    \/ HNext
    \/ GSendErr
    \/ HSubmit
    \/ GRecv
    \/ GSleep
    \/ GDeadline
    \/ \E w \in Workers :
          WRecv(w) \/ WGet(w) \/ WCompute(w) \/ WAdd(w) \/ GSend(w)

SpecBg == InitBg /\ [][NextBg]_vars

(* ----------- several requests at once on one pool (05.go) ------------- *)

\* 05.go, lines 62-66: the locals of a handler that has just been called
NewSession ==
    [p |-> NewPuller(MultiMax), hpc |-> "next", hurl |-> NoURL, herr |-> "nil",
     responses |-> <<>>, recvd |-> 0, submitted |-> 0, results |-> 0]

\* an imgResponse on a responses channel, with the handler whose request it
\* answers
Tagged(r, s) == [hex |-> r.hex, err |-> r.err, of |-> s]

\* lines 39-58 and 60: the workers wait and every handler was called
InitMulti ==
    /\ cache = newColorCache(CacheCap)
    /\ mutex = NewMutex
    /\ addLog = <<>>
    /\ pc = [t \in Workers |-> "idle"]
    /\ wurl = [t \in Workers |-> NoURL]
    /\ wresp = [t \in Workers |-> ZeroResp]
    /\ wok = [t \in Workers |-> FALSE]
    /\ InitPipe
    /\ fclast = NoColorCall
    /\ qclosed = FALSE
    /\ qcap = Buffer
    /\ wgn = 0
    /\ recvFor = [r \in Requests |-> 0]
    /\ nreqs = 0
    /\ img = NoImage
    /\ fx = 0
    /\ fy = 0
    /\ fcol = "none"
    /\ fpc = "off"
    /\ rcap = MultiMax
    /\ orphans = 0
    /\ late = 0
    /\ ses = [s \in Sessions |-> NewSession]
    /\ wses = [t \in Workers |-> NoSession]

\* what a step of the program with several requests leaves alone
MultiFrame ==
    UNCHANGED <<cacheVars, wok, localResponse, handlerVars, cancelled,
                responses, historyVars, panicked, gm, pagerLog, fclast, qclosed,
                qcap, wgn, recvFor, nreqs, img, fx, fy, fcol, fpc, rcap,
                orphans, late>>

\* lines 76-87: imgURL, err := p.Next() of handler s and the branch on err
MNext(s) ==
    /\ ses[s].hpc = "next"
    /\ \E res \in PullerNext(ses[s].p, FALSE) :
          ses' = [ses EXCEPT ![s].p = res.p,
                             ![s].hurl = res.url,
                             ![s].herr = IF res.err \in PagerErrors
                                         THEN res.err ELSE "nil",
                             ![s].hpc = IF res.err = "EndOfResults"
                                        THEN "aggregate"
                                        ELSE IF res.err = "nil" THEN "submit"
                                        ELSE "senderr"]
    /\ UNCHANGED <<pc, wurl, wresp, wreq, wses, imgReqs>>
    /\ MultiFrame

\* lines 83-86: responses <- imgResponse{err: err}; continue
MSendErr(s) ==
    /\ ses[s].hpc = "senderr"
    /\ Len(ses[s].responses) < rcap
    /\ ses' = [ses EXCEPT ![s].responses =
                              Append(@, Tagged(MkResp(0, ses[s].herr), s)),
                          ![s].herr = "nil",
                          ![s].hpc = "next"]
    /\ UNCHANGED <<pc, wurl, wresp, wreq, wses, imgReqs>>
    /\ MultiFrame

\* lines 89-94: imgReqs <- &imgRequest{p, url, responses}; the request
\* carries the handler's own channel
MSubmit(s) ==
    /\ ses[s].hpc = "submit"
    /\ Len(imgReqs) < Buffer
    /\ imgReqs' = Append(imgReqs, [url |-> ses[s].hurl, responses |-> s,
                                   by |-> s])
    /\ ses' = [ses EXCEPT ![s].submitted = @ + 1,
                          ![s].hurl = NoURL,
                          ![s].hpc = "next"]
    /\ UNCHANGED <<pc, wurl, wresp, wreq, wses>>
    /\ MultiFrame

\* lines 97-111, one round of the loop: resp := <-responses
MHRecv(s) ==
    /\ ses[s].hpc = "aggregate"
    /\ ses[s].recvd < rcap
    /\ Len(ses[s].responses) > 0
    /\ ses' = [ses EXCEPT ![s].responses = Tail(@), ![s].recvd = @ + 1]
    /\ UNCHANGED <<pc, wurl, wresp, wreq, wses, imgReqs>>
    /\ MultiFrame

\* lines 97-112: the loop ends at i = max and the handler returns
MDone(s) ==
    /\ ses[s].hpc = "aggregate"
    /\ ses[s].recvd >= rcap
    /\ ses' = [ses EXCEPT ![s].hpc = "done"]
    /\ UNCHANGED <<pc, wurl, wresp, wreq, wses, imgReqs>>
    /\ MultiFrame

\* line 43: for req := range imgReqs
MRecv(w) ==
    /\ pc[w] = "idle"
    /\ Len(imgReqs) > 0
    /\ imgReqs' = Tail(imgReqs)
    /\ wurl' = [wurl EXCEPT ![w] = Head(imgReqs).url]
    /\ wses' = [wses EXCEPT ![w] = Head(imgReqs).responses]
    /\ wreq' = [wreq EXCEPT ![w] = Head(imgReqs).by]
    /\ pc' = [pc EXCEPT ![w] = "compute"]
    /\ UNCHANGED <<wresp, ses>>
    /\ MultiFrame

\* lines 45-52: FirstColor and the response built from it
MCompute(w) ==
    /\ pc[w] = "compute"
    /\ \E r \in FirstColor(wurl[w], FALSE) :
          wresp' = [wresp EXCEPT ![w] = r]
    /\ pc' = [pc EXCEPT ![w] = "send"]
    /\ UNCHANGED <<wurl, wreq, wses, imgReqs, ses>>
    /\ MultiFrame

\* a worker that sends on whichever handler's channel has room
MSendAny(w) ==
    /\ pc[w] = "send"
    /\ \E s \in Sessions :
          /\ Len(ses[s].responses) < rcap
          /\ ses' = [ses EXCEPT ![s].responses =
                                    Append(@, Tagged(wresp[w], wreq[w])),
                                ![s].results = @ + 1]
    /\ pc' = [pc EXCEPT ![w] = "idle"]
    /\ wurl' = [wurl EXCEPT ![w] = NoURL]
    /\ wresp' = [wresp EXCEPT ![w] = ZeroResp]
    /\ wreq' = [wreq EXCEPT ![w] = NoReq]
    /\ wses' = [wses EXCEPT ![w] = NoSession]
    /\ UNCHANGED imgReqs
    /\ MultiFrame

\* lines 54-55: req.responses <- resp
MSend(w) ==
    /\ pc[w] = "send"
    /\ Len(ses[wses[w]].responses) < rcap
    /\ ses' = [ses EXCEPT ![wses[w]].responses =
                              Append(@, Tagged(wresp[w], wreq[w])),
                          ![wses[w]].results = @ + 1]
    /\ pc' = [pc EXCEPT ![w] = "idle"]
    /\ wurl' = [wurl EXCEPT ![w] = NoURL]
    /\ wresp' = [wresp EXCEPT ![w] = ZeroResp]
    /\ wreq' = [wreq EXCEPT ![w] = NoReq]
    /\ wses' = [wses EXCEPT ![w] = NoSession]
    /\ UNCHANGED imgReqs
    /\ MultiFrame

NextMulti ==
    \/ \E s \in Sessions :
          \/ MNext(s)
          \/ MSendErr(s)
          \/ MSubmit(s)
          \/ MHRecv(s)
          \/ MDone(s)
    \/ \E w \in Workers :
          \/ MRecv(w)
          \/ MCompute(w)
          \/ MSend(w)

SpecMulti == InitMulti /\ [][NextMulti]_vars

(* ----------------- the batch program with errs (04.go) ---------------- *)

\* lines 42-55: the Puller, imgURLs and errs, both of capacity buffer, and
\* the workers started
InitErrs ==
    /\ cache = newColorCache(CacheCap)
    /\ mutex = NewMutex
    /\ addLog = <<>>
    /\ \E pool \in Pools :
          pc = [t \in Workers |-> IF t \in pool THEN "idle" ELSE "off"]
    /\ wurl = [t \in Workers |-> NoURL]
    /\ wresp = [t \in Workers |-> ZeroResp]
    /\ wok = [t \in Workers |-> FALSE]
    /\ InitPipe
    /\ fclast = NoColorCall
    /\ qclosed = FALSE
    /\ qcap \in 0..Buffer
    /\ wgn = 0
    /\ recvFor = [r \in Requests |-> 0]
    /\ nreqs = 0
    /\ InitMore

\* lines 58-70: imgURL, err := p.Next() and the branch on err
ENext ==
    /\ hpc = "next"
    /\ \E res \in PullerNext(p, FALSE) :
          /\ p' = res.p
          /\ hurl' = res.url
          /\ herr' = IF res.err \in PagerErrors THEN res.err ELSE "nil"
          /\ hpc' = IF res.err = "EndOfResults" THEN "close"
                    ELSE IF res.err = "nil" THEN "submit" ELSE "senderr"
          /\ pagerFailed' = (pagerFailed \/ res.err \in PagerErrors)
          /\ endedEarly' = (endedEarly \/
                              (res.err = "EndOfResults" /\ p.count < p.max))
    /\ UNCHANGED <<cacheVars, workerVars, recvd, cancelled, responses, imgReqs,
                   submitted, sentFor, panicked, closes, gm, pagerLog,
                   extraVars>>

\* lines 65-69: errs <- err; continue. errs is read only after the loop, so
\* the send needs a free place of the buffer
ESendErr ==
    /\ hpc = "senderr"
    /\ Len(responses) < qcap
    /\ responses' = Append(responses, MkResp(0, herr))
    /\ herr' = "nil"
    /\ hpc' = "next"
    /\ UNCHANGED <<cacheVars, workerVars, p, hurl, cancelled, recvd, imgReqs,
                   historyVars, panicked, gm, pagerLog, extraVars>>

\* line 73: imgURLs <- imgURL, into a free place of the buffer
ESubmit ==
    /\ hpc = "submit"
    /\ Len(imgReqs) < qcap
    /\ imgReqs' = Append(imgReqs, [url |-> hurl, req |-> submitted + 1])
    /\ submitted' = submitted + 1
    /\ hurl' = NoURL
    /\ hpc' = "next"
    /\ UNCHANGED <<cacheVars, workerVars, p, herr, recvd, cancelled, responses,
                   sentFor, pagerFailed, endedEarly, panicked, closes, gm,
                   pagerLog, extraVars>>

\* lines 73 and 18: a channel without buffer passes the URL to a worker that
\* waits in its range
EHandoff(w) ==
    /\ hpc = "submit"
    /\ qcap = 0
    /\ pc[w] = "idle"
    /\ submitted' = submitted + 1
    /\ hurl' = NoURL
    /\ hpc' = "next"
    /\ wurl' = [wurl EXCEPT ![w] = hurl]
    /\ wreq' = [wreq EXCEPT ![w] = submitted + 1]
    /\ pc' = [pc EXCEPT ![w] = "compute"]
    /\ UNCHANGED <<cacheVars, wresp, wok, localResponse, p, herr, recvd,
                   cancelled, responses, imgReqs, sentFor, pagerFailed,
                   endedEarly, panicked, closes, gm, pagerLog, extraVars>>

\* line 79: close(imgURLs)
EClose ==
    /\ hpc = "close"
    /\ qclosed' = TRUE
    /\ hpc' = "aggregate"
    /\ UNCHANGED <<cacheVars, workerVars, p, herr, hurl, recvd, cancelled,
                   responses, imgReqs, historyVars, panicked, gm, pagerLog,
                   fclast, qcap, wgn, recvFor, nreqs, moreVars>>

\* line 18: for url := range in takes the head of the buffer
ERecv(w) ==
    /\ pc[w] = "idle"
    /\ Len(imgReqs) > 0
    /\ imgReqs' = Tail(imgReqs)
    /\ wurl' = [wurl EXCEPT ![w] = Head(imgReqs).url]
    /\ wreq' = [wreq EXCEPT ![w] = Head(imgReqs).req]
    /\ pc' = [pc EXCEPT ![w] = "compute"]
    /\ UNCHANGED <<cacheVars, wresp, wok, localResponse, handlerVars,
                   cancelled, responses, historyVars, panicked, gm, pagerLog,
                   extraVars>>

\* lines 21-27: FirstColor; the colour is printed when there is no error
ECompute(w) ==
    /\ pc[w] = "compute"
    /\ \E r \in FirstColor(wurl[w], FALSE) :
          wresp' = [wresp EXCEPT ![w] = r]
    /\ pc' = [pc EXCEPT ![w] = "send"]
    /\ UNCHANGED <<cacheVars, wurl, wok, wreq, localResponse, handlerVars,
                   cancelled, responses, imgReqs, historyVars, panicked, gm,
                   pagerLog, extraVars>>

\* line 30: out <- err, into a free place of the buffer
ESend(w) ==
    /\ pc[w] = "send"
    /\ Len(responses) < qcap
    /\ responses' = Append(responses, wresp[w])
    /\ sentFor' = [sentFor EXCEPT ![wreq[w]] = @ + 1]
    /\ pc' = [pc EXCEPT ![w] = "idle"]
    /\ wurl' = [wurl EXCEPT ![w] = NoURL]
    /\ wresp' = [wresp EXCEPT ![w] = ZeroResp]
    /\ wreq' = [wreq EXCEPT ![w] = NoReq]
    /\ UNCHANGED <<cacheVars, wok, localResponse, handlerVars, cancelled,
                   imgReqs, submitted, pagerFailed, endedEarly, panicked,
                   closes, gm, pagerLog, extraVars>>

\* lines 30 and 84: a channel without buffer passes the error from the
\* worker to main waiting in 'err := <-errs'
ESendDirect(w) ==
    /\ pc[w] = "send"
    /\ qcap = 0
    /\ hpc = "aggregate"
    /\ recvd < p.max
    /\ recvd' = recvd + 1
    /\ sentFor' = [sentFor EXCEPT ![wreq[w]] = @ + 1]
    /\ pc' = [pc EXCEPT ![w] = "idle"]
    /\ wurl' = [wurl EXCEPT ![w] = NoURL]
    /\ wresp' = [wresp EXCEPT ![w] = ZeroResp]
    /\ wreq' = [wreq EXCEPT ![w] = NoReq]
    /\ UNCHANGED <<cacheVars, wok, localResponse, p, hpc, herr, hurl,
                   cancelled, responses, imgReqs, submitted, pagerFailed,
                   endedEarly, panicked, closes, gm, pagerLog, extraVars>>

\* lines 83-88, one round of the loop: err := <-errs, from the buffer
EMainRecv ==
    /\ hpc = "aggregate"
    /\ recvd < p.max
    /\ Len(responses) > 0
    /\ responses' = Tail(responses)
    /\ recvd' = recvd + 1
    /\ UNCHANGED <<cacheVars, workerVars, p, hpc, herr, hurl, cancelled,
                   imgReqs, historyVars, panicked, gm, pagerLog, extraVars>>

\* lines 83-91: the loop ends at i = max and main returns
EDone ==
    /\ hpc = "aggregate"
    /\ recvd >= p.max
    /\ hpc' = "done"
    /\ UNCHANGED <<cacheVars, workerVars, p, herr, hurl, recvd, cancelled,
                   responses, imgReqs, historyVars, panicked, gm, pagerLog,
                   extraVars>>

\* lines 18 and 31-32: the range ends on the closed and empty channel
EExit(w) ==
    /\ pc[w] = "idle"
    /\ qclosed
    /\ imgReqs = <<>>
    /\ pc' = [pc EXCEPT ![w] = "exited"]
    /\ UNCHANGED <<cacheVars, wurl, wresp, wok, wreq, localResponse,
                   handlerVars, cancelled, responses, imgReqs, historyVars,
                   panicked, gm, pagerLog, extraVars>>

NextErrs ==
    \/ ENext
    \/ ESendErr
    \/ ESubmit
    \/ EClose
    \/ EMainRecv
    \/ EDone
    \/ \E w \in Workers :
          \/ EHandoff(w)
          \/ ERecv(w)
          \/ ECompute(w)
          \/ ESend(w)
          \/ ESendDirect(w)
          \/ EExit(w)

SpecErrs == InitErrs /\ [][NextErrs]_vars



(* ------------------------ claims about the cache ---------------------- *)

\* the URLs of the Adds completed so far, in order
LoggedURLs == [i \in 1..Len(addLog) |-> addLog[i].url]

PairwiseDistinct(s) == \A i, j \in 1..Len(s) : i # j => s[i] # s[j]

\* the last Add of u in the log, 0 when there is none
LastAdd(u) ==
    LET S == {i \in 1..Len(addLog) : addLog[i].url = u}
    IN IF S = {} THEN 0 ELSE CHOOSE i \in S : \A j \in S : j <= i

\* u was evicted by an Add later than the i-th
EvictedSince(u, i) == \E j \in (i + 1)..Len(addLog) : addLog[j].victim = u

\* what a Get of u returns according to the history of Adds
Expected(u) ==
    IF LastAdd(u) = 0 \/ EvictedSince(u, LastAdd(u))
    THEN [resp |-> ZeroResp, ok |-> FALSE]
    ELSE [resp |-> addLog[LastAdd(u)].resp, ok |-> TRUE]

\* C6: after any sequence of Add and Get calls, concurrent ones and repeated
\* Adds of one URL included, Get finds at most CacheCap URLs.
C6_SizeWithinCapacity == Cardinality(Retrievable(cache)) <= CacheCap

\* the cache is full after more Adds than its capacity, one URL added twice
C6_Witness ==
    /\ Cardinality(Retrievable(cache)) = CacheCap
    /\ Len(addLog) > CacheCap
    /\ ~PairwiseDistinct(LoggedURLs)

\* C7: after CacheCap+1 Adds of pairwise distinct URLs into the empty cache,
\* Get misses the first URL inserted and hits the other CacheCap.
C7_FirstInsertedEvicted ==
    (Len(addLog) = CacheCap + 1 /\ PairwiseDistinct(LoggedURLs)) =>
        /\ \A i \in 1..Len(addLog) :
              CacheGet(cache, addLog[i].url).ok <=> (i # 1)
        /\ \A t \in Workers :
              (pc[t] = "get_runlock"
                 /\ \E i \in 1..Len(addLog) : addLog[i].url = wurl[t])
              => (wok[t] <=> wurl[t] # addLog[1].url)

\* a Get of the first URL inserted has just missed, after CacheCap+1 Adds
C7_Witness ==
    /\ Len(addLog) = CacheCap + 1
    /\ PairwiseDistinct(LoggedURLs)
    /\ \E t \in Workers :
          pc[t] = "get_runlock" /\ wurl[t] = addLog[1].url /\ ~wok[t]

\* C8: an Add removes exactly one retrievable URL when CacheCap URLs are
\* retrievable, and none when fewer are.
C8_EvictsExactlyAtCapacity ==
    [][Len(addLog') = Len(addLog) + 1 =>
         LET before == Retrievable(cache)
             removed == before \ Retrievable(cache')
         IN IF Cardinality(before) = CacheCap
            THEN Cardinality(removed) = 1
            ELSE removed = {}]_vars

\* C9: no step of Get changes the cache, and the entry the next Add evicts is
\* the oldest of the insertions still listed, whatever was read.
C9_GetLeavesCacheAlone ==
    /\ [][(\E t \in Workers : GetRLock(t) \/ GetRead(t) \/ GetRUnlock(t))
             => cache' = cache]_vars
    /\ [](AddVictim(cache) # NoURL =>
             AddVictim(cache) = addLog[Len(addLog) - cache.max + 1].url)

\* the oldest entry of the full cache was just read, a hit, and is still the
\* entry the next Add evicts
C9_Witness ==
    /\ cache.count = cache.max
    /\ \E t \in Workers :
          /\ pc[t] = "get_runlock"
          /\ wok[t]
          /\ wurl[t] = AddVictim(cache)
          /\ wurl[t] # Head(cache.exp)

\* C10: a Get returns found and the response of the last Add of its URL when
\* the URL was not evicted since, and not found when the URL was never added
\* or was evicted.
C10_GetReturnsStored ==
    \A t \in Workers :
        pc[t] = "get_runlock" =>
            /\ wok[t] = Expected(wurl[t]).ok
            /\ wok[t] => wresp[t] = Expected(wurl[t]).resp

\* a Get hits a URL added twice with different responses, and one misses an
\* evicted URL
C10_Witness ==
    /\ \E t \in Workers :
          /\ pc[t] = "get_runlock" /\ wok[t]
          /\ \E i, j \in 1..Len(addLog) :
                /\ i < j
                /\ addLog[i].url = wurl[t] /\ addLog[j].url = wurl[t]
                /\ addLog[i].resp # addLog[j].resp
                /\ wresp[t] = addLog[j].resp
    /\ \E t \in Workers :
          /\ pc[t] = "get_runlock" /\ ~wok[t]
          /\ LastAdd(wurl[t]) # 0

(* ----------------------- claims about a request ----------------------- *)

\* no response is on its way: none buffered, no request queued or in work
NoResultOutstanding ==
    /\ Len(responses) = 0
    /\ Len(imgReqs) = 0
    /\ \A w \in Workers : pc[w] = "idle"

\* C2: the aggregation loop is over as soon as every result that will come
\* has been received, also when the pager ended early; it never waits for a
\* result that no submitted task will produce.
C2_AggregationNeverWaitsForNothing ==
    (hpc = "aggregate" /\ NoResultOutstanding) => recvd >= p.max

\* the upstream served every page asked for and no pager call failed
UpstreamServes == ~pagerFailed /\ ~endedEarly

Queued(r) == \E k \in 1..Len(imgReqs) : imgReqs[k].req = r

\* request r is with a worker
Held(r) == \E w \in Workers : wreq[w] = r

\* request r was submitted and the worker that took it is through with it
Finished(r) == r <= submitted /\ ~Queued(r) /\ ~Held(r)

\* C1: every request submitted to the work queue results in exactly one
\* response on the session's response queue; a request whose session was
\* cancelled or whose task timed out is not dropped without a response.
C1_ExactlyOneResponse ==
    \A r \in Requests :
        /\ sentFor[r] <= 1
        /\ Finished(r) => sentFor[r] = 1

RECURSIVE SentUpTo(_)
\* the number of responses the workers sent for requests 1..n
SentUpTo(n) == IF n = 0 THEN 0 ELSE sentFor[n] + SentUpTo(n - 1)

\* C3: once the deadline has elapsed and every submitted task has left the
\* workers, the results produced for tasks, real and cancelled ones together,
\* are as many as the tasks submitted.
C3_EmittedEqualsSubmitted ==
    (cancelled /\ \A r \in 1..submitted : Finished(r))
        => SentUpTo(MaxImg) = submitted

\* C5: the cancel channel of a session is closed at most once, and a repeated
\* cancellation is a no-op, not a panic.
C5_CancelClosedAtMostOnce == closes <= 1 /\ ~panicked

(* ------------------- claims about workers and the cache --------------- *)

\* C11: a worker stores only results of successful computations: the cache
\* holds no failure, so a URL whose computation failed is computed again on
\* the next request.
C11_OnlySuccessesCached ==
    \A u \in DOMAIN cache.hmap : cache.hmap[u].err = "nil"

\* worker w missed the cache and is computing, or has computed and not yet
\* stored, the colour of its URL
Computing(w) == pc[w] \in {"compute", "add"}

\* URL u was removed from the cache by some Add
EverEvicted(u) == \E k \in 1..Len(addLog) : addLog[k].victim = u

\* C13: when one URL is requested twice and its entry is not evicted in
\* between, the colour is computed once, whatever the interleaving of the two
\* workers: two workers never compute the same never-evicted URL at once.
C13_SameURLComputedOnce ==
    \A w1, w2 \in Workers :
        (w1 # w2 /\ Computing(w1) /\ Computing(w2) /\ wurl[w1] = wurl[w2])
            => EverEvicted(wurl[w1])

\* caller t is between RLock and RUnlock of a Get or a GetMulti
InRead(t) == pc[t] \in {"get_read", "get_runlock", "gm_range", "gm_close"}

\* caller t is between Lock and Unlock of an Add
InWrite(t) == pc[t] \in {"add_body", "add_unlock"}

\* C12: while an Add is inside its critical section no Get, GetMulti or other
\* Add is inside theirs, and the map and the expiry list change only in a
\* step of the Add that holds the write lock.
C12_ReaderWriterExclusion ==
    /\ [](\A t \in Workers :
             InWrite(t) => \A o \in Workers \ {t} : ~InWrite(o) /\ ~InRead(o))
    /\ [][cache' # cache =>
             \E t \in Workers : pc[t] = "add_body" /\ mutex.writer = t
                                /\ pc'[t] = "add_unlock"]_vars

\* after an Add, a Get and a GetMulti are inside their critical sections at
\* once
C12_Witness ==
    /\ Len(addLog) > 0
    /\ \E t, o \in Workers : pc[t] = "get_read" /\ pc[o] = "gm_range"

(* ------------------------ claims about the pager ---------------------- *)

\* C14: a Puller created with max = N returns at most N URLs whatever the
\* upstream answers: count and the URLs returned never exceed N, and once
\* count has reached N every call returns EndOfResults, no URL, and makes no
\* upstream request.
C14_AtMostMaxURLs ==
    /\ [](p.count <= p.max /\ pret <= p.max)
    /\ [][p.count >= p.max =>
             /\ plast'.err = "EndOfResults"
             /\ plast'.url = NoURL
             /\ plast'.reqs = <<>>
             /\ pret' = pret]_vars

\* a pager with a budget has returned all its URLs and was called again
C14_Witness ==
    /\ p.max > 0
    /\ pret = p.max
    /\ plast.err = "EndOfResults"

\* C15: a loop that calls the pager of NewPuller(N) until EndOfResults,
\* against an upstream that serves images and never fails, gets a URL from
\* every call until it has N of them, and EndOfResults from the call after:
\* exactly N URLs, and the loop ends.
C15_LoopYieldsExactlyMax ==
    /\ []((pended /\ UpstreamServes) => pret = p.max)
    /\ [][(~pended /\ UpstreamServes') =>
             IF pret < p.max
             THEN plast'.err = "nil" /\ plast'.url # NoURL /\ pret' = pret + 1
             ELSE plast'.err = "EndOfResults" /\ pended']_vars

\* the loop has ended after N >= 2 URLs with no failure of the upstream
C15_Witness ==
    /\ pended
    /\ UpstreamServes
    /\ p.max >= 2
    /\ pret = p.max

\* the Puller holds a page and its index is within it
WithinPage(pp) == ~pp.qr.nil /\ pp.i < Len(pp.qr.imgs)

\* C16: a call that has budget left makes an upstream request only if no page
\* is held or the index is at the end of the held page, and at most one;
\* otherwise it returns the item at the index of the held page and makes no
\* request.
C16_FetchOnlyWhenExhausted ==
    [][/\ Len(plast'.reqs) <= 1
       /\ plast'.reqs # <<>> => ~WithinPage(p)
       /\ (WithinPage(p) /\ p.count < p.max) =>
             /\ plast'.reqs = <<>>
             /\ plast'.err = "nil"
             /\ plast'.url = p.qr.imgs[p.i + 1]]_vars

\* the last call returned a URL from the held page, the one before fetched
C16_Witness ==
    /\ plast.err = "nil"
    /\ plast.reqs = <<>>
    /\ pret >= 2

\* C17: every upstream request asks for min(apiMax, max - count) images.
C17_PageSizeIsMinOfCapAndBudget ==
    [][\A k \in 1..Len(plast'.reqs) :
          plast'.reqs[k].ailimit = Min(apiMax, p.max - p.count)]_vars

\* C18: an upstream request carries both continue parameters, the values of
\* the held (the most recently fetched) response, or neither of them.
C18_BothContinueOrNeither ==
    [][\A k \in 1..Len(plast'.reqs) :
          LET r == plast'.reqs[k]
          IN \/ r.continue = 0 /\ r.aicontinue = 0
             \/ /\ r.continue > 0 /\ r.aicontinue > 0
                /\ ~p.qr.nil
                /\ r.continue = p.qr.cont
                /\ r.aicontinue = p.qr.aicont]_vars

\* the last call sent a request that carried both continue parameters
C18_Witness ==
    /\ plast.reqs # <<>>
    /\ plast.reqs[1].continue > 0
    /\ plast.reqs[1].aicontinue > 0

\* C19: once a call has returned EndOfResults every later call returns
\* EndOfResults, no URL, and makes no upstream request.
C19_EndOfResultsTerminal ==
    [][pended =>
          /\ plast'.err = "EndOfResults"
          /\ plast'.url = NoURL
          /\ plast'.reqs = <<>>]_vars

\* the failure items of transport and parse errors waiting on the response
\* channel
FailureItems ==
    {k \in 1..Len(responses) : responses[k].err \in {"transport", "parse"}}

\* C20: a transport or parse error of the pager ends the pagination and is
\* reported as one failure item; the fetch is not tried again.
C20_OneFailureItemNoRetry == Cardinality(FailureItems) <= 1

(* ---------------------- claims about cancellation --------------------- *)

\* C21: once the Cancel channel is closed a call of Next starts no upstream
\* request and hands out no URL, also when items of the held page remain and
\* count < max: the Puller is left as it was.
C21_NoPaginationAfterCancel ==
    [][(cancelled /\ plast' # plast) =>
          /\ plast'.reqs = <<>>
          /\ plast'.url = NoURL
          /\ pret' = pret
          /\ p' = p]_vars

\* Next was called after the cancellation with items left in the held page
\* and budget left
C21_Witness ==
    /\ cancelled
    /\ plast.err = "Cancelled"
    /\ WithinPage(p)
    /\ p.count < p.max

\* C22: once the Cancel channel is closed every call of Next and every call
\* of FirstColor returns the Cancelled error.
C22_CancelledAfterClose ==
    [][cancelled =>
          /\ plast' # plast => plast'.err = "Cancelled"
          /\ fclast' # fclast => fclast'.err = "Cancelled"]_vars

\* C23: the deadline timer starts with the first submission: the deadline
\* does not elapse while the session has submitted nothing.
C23_DeadlineCountsFromFirstSubmission == cancelled => submitted >= 1

\* C25: a failing task affects only its own result: the step a worker takes
\* after its task timed out leaves the session's cancel signal and the other
\* workers as they were.
C25_TaskFailureStaysLocal ==
    [][\A w \in Workers :
          (pc[w] = "case_timeout" /\ pc'[w] # pc[w]) =>
              /\ cancelled' = cancelled
              /\ \A v \in Workers \ {w} : pc'[v] = pc[v]]_vars

\* C26: a result completed before the cancel signal fired is delivered: a
\* worker never takes the cancel case of its select while it holds a
\* successful result (FirstColor yields none once the signal has fired).
C26_CompletedResultDelivered ==
    \A w \in Workers :
        pc[w] = "case_cancel" =>
            (localResponse[w] = NoResp \/ localResponse[w].err # "nil")

\* C29: pagination calls never overlap and no worker touches the pager: the
\* Puller changes only in a step of the handler at its call of Next, and no
\* worker moves in that step.
C29_PagerOnlyInHandler ==
    [][p' # p => (hpc = "next" /\ pc' = pc)]_vars

\* the handler is about to call Next again on a pager it has used while a
\* worker is inside FirstColor
C29_Witness ==
    /\ hpc = "next"
    /\ p.count >= 1
    /\ ~p.qr.nil
    /\ \E w \in Workers : pc[w] = "compute"

\* C30: GetMulti(max, out) sends at most max values on out.
C30_GetMultiAtMostMax == \A t \in Workers : gm[t].i <= GMMax

(* --------------------- claims about the batch program ----------------- *)

\* the worker that took URL r has printed its colour or logged its error
Processed(r) == recvFor[r] = 1 /\ ~Queued(r) /\ ~Held(r)

\* C24: a send on the full channel waits until a worker has taken an item
\* (the channel never holds more than its capacity, and a URL is submitted
\* only into a free place or into the hands of a waiting worker), and every
\* URL submitted is received exactly once by exactly one worker, for every
\* capacity from 0 and every number of workers from 1.
C24_BlockingQueueExactlyOnce ==
    /\ [](/\ Len(imgReqs) <= qcap
          /\ \A r \in Requests :
                /\ recvFor[r] = IF r <= submitted /\ ~Queued(r) THEN 1 ELSE 0
                /\ Cardinality({w \in Workers : wreq[w] = r}) <= 1
                /\ Held(r) => r <= submitted /\ ~Queued(r))
    /\ [][submitted' # submitted =>
             \/ Len(imgReqs) < qcap
             \/ \E w \in Workers : pc[w] = "idle" /\ wreq'[w] = submitted'
         ]_vars

\* main waits at its send on the full channel while each of two workers is
\* busy with a URL it received
C24_Witness ==
    /\ hpc = "submit"
    /\ Len(imgReqs) = qcap
    /\ submitted >= 2
    /\ \A w \in Workers : pc[w] = "compute"

\* C28: after close(imgURLs) a worker leaves only when the channel is empty,
\* main returns only when every worker has called wg.Done(), by then every
\* URL submitted has been processed, and main does return.
C28_DrainThenExit ==
    /\ [](/\ \A w \in Workers : pc[w] = "exited" => (qclosed /\ imgReqs = <<>>)
          /\ hpc = "done" =>
                /\ wgn = 0
                /\ \A w \in Workers : pc[w] \in {"exited", "off"}
                /\ \A r \in 1..submitted : Processed(r))
    /\ (qclosed ~> hpc = "done")

\* main has returned after a buffered channel was closed and both workers
\* went through at least two URLs and left
C28_Witness ==
    /\ hpc = "done"
    /\ submitted >= 2
    /\ qcap >= 1
    /\ \A w \in Workers : pc[w] = "exited"

(* ---------------------- the end-to-end case --------------------------- *)

\* C27: a session with max = 10 against an upstream that serves exactly 10
\* URLs as two pages of 5, nothing failing, makes exactly 2 upstream listing
\* calls and emits exactly 10 results.
C27_TwoCallsTenResults ==
    /\ nreqs <= 2
    /\ Len(responses) + recvd <= E2EMax
    /\ hpc = "done" =>
          /\ nreqs = 2
          /\ submitted = E2EMax
          /\ recvd = E2EMax
          /\ responses = <<>>
          /\ \A r \in 1..E2EMax : sentFor[r] = 1

\* the handler has read its last response and returned
C27_Witness == hpc = "done" /\ recvd = E2EMax /\ p.count = E2EMax

(* ------------------- claims about the pager's cursor ------------------ *)

\* C32: successive successful calls return the items of a fetched page in
\* page order, each position once, starting with item 0: after a successful
\* call the index is the number of items of the held page handed out, and
\* the URL returned is the item just before the index.
C32_EachPositionOnce ==
    [][(plast' # plast /\ plast'.err = "nil") =>
          /\ p'.i >= 1
          /\ p'.i <= Len(p'.qr.imgs)
          /\ plast'.url = p'.qr.imgs[p'.i]
          /\ (plast'.reqs = <<>> => p'.i = p.i + 1)]_vars

\* C33: a call that fails with a transport or parse error leaves the held
\* page, the index, the continue values and the count as they were.
C33_FailedCallLeavesPager ==
    [][(plast' # plast /\ plast'.err \in {"transport", "parse"}) =>
          p' = p]_vars

\* C34: a request without continue parameters is sent only while no fetched
\* page is held.
C34_NoRestartOfListing ==
    [][\A k \in 1..Len(plast'.reqs) :
          (plast' # plast /\ plast'.reqs[k].continue = 0
                          /\ plast'.reqs[k].aicontinue = 0) => p.qr.nil]_vars

(* ------------------ claims about the cache's bookkeeping -------------- *)

\* C35: after any sequence of Adds, an Add of a present URL included, count
\* equals the length of the expiry list equals the number of keys of the
\* map, and the expiry list holds each stored URL exactly once.
C35_BookkeepingConsistent ==
    /\ cache.count = Len(cache.exp)
    /\ cache.count = Cardinality(DOMAIN cache.hmap)
    /\ \A u \in DOMAIN cache.hmap :
          Cardinality({k \in 1..Len(cache.exp) : cache.exp[k] = u}) = 1

(* ------------------- claims about the handler's loop ------------------ *)

\* C38: the handler's pagination loop ends: the handler never waits to send
\* an error item on its full response channel.
C38_LoopNeverBlocksOnErrorItem ==
    ~(hpc = "senderr" /\ Len(responses) >= p.max)

(* ------------------------ claims about firstColor --------------------- *)

\* the pixels of the image whose palette colour is not gray
Coloured(im) ==
    {xy \in (1..im.dx) \X (1..im.dy) : ~IsGray(PalIndex(im.at[xy[1]][xy[2]]))}

\* the place of pixel xy in a scan row by row from (0,0)
RowMajor(im, xy) == (xy[2] - 1) * im.dx + (xy[1] - 1)

\* the colour of the first pixel, row by row, that is not gray, and the
\* colour of the last pixel when all are gray
FirstNonGray(im) ==
    IF Coloured(im) = {}
    THEN PalIndex(im.at[im.dx][im.dy])
    ELSE LET xy == CHOOSE a \in Coloured(im) :
                      \A b \in Coloured(im) : RowMajor(im, a) <= RowMajor(im, b)
         IN PalIndex(im.at[xy[1]][xy[2]])

\* C31: firstColor returns the colour of the first pixel, scanning row by row
\* from (0,0), whose palette colour is not gray, and the colour of the last
\* pixel only if every pixel maps to gray.
C31_FirstNonGrayRowMajor == fpc = "returned" => fcol = FirstNonGray(img)

(* --------------------- claims about the timeout wrapper --------------- *)

Started(w) == pc[w] # "off"

\* C36: the pipeline with errs never reaches a state in which main waits at
\* its send on the full imgURLs while every worker waits at its send on the
\* full errs.
C36_NoSubmitSendDeadlock ==
    ~(/\ hpc = "submit"
      /\ Len(imgReqs) >= qcap
      /\ Len(responses) >= qcap
      /\ \A w \in Workers : Started(w) => pc[w] = "send")

(* -------------------- claims about the background task ---------------- *)

\* C37: no worker waits forever at its send of a response of a background
\* round: no worker is at its send on the full responses channel of a round
\* whose task has finished reading.
C37_NoWorkerStuckSending ==
    ~(/\ hpc = "sleep"
      /\ Len(responses) >= rcap
      /\ \E w \in Workers : pc[w] = "send")

(* ------------------- claims about several requests -------------------- *)

\* C39: a result is sent only on the responses channel of the handler that
\* submitted its request: every response on a handler's channel answers a
\* request of that handler, a worker's send changes no other handler, and a
\* handler's channel never got more results than the handler submitted.
C39_ResultsStayInSession ==
    /\ [](\A s \in Sessions :
             /\ \A k \in 1..Len(ses[s].responses) : ses[s].responses[k].of = s
             /\ ses[s].results <= ses[s].submitted)
    /\ [][\A w \in Workers :
             (pc[w] = "send" /\ pc'[w] = "idle") =>
                 /\ wses[w] = wreq[w]
                 /\ \A s \in Sessions \ {wses[w]} : ses'[s] = ses[s]]_vars

\* both handlers have submitted, a result waits on the channel of one, and
\* a worker is about to send a result of the other
C39_Witness ==
    /\ \A s \in Sessions : ses[s].submitted >= 1
    /\ \E s \in Sessions, w \in Workers :
          /\ ses[s].results >= 1
          /\ Len(ses[s].responses) >= 1
          /\ pc[w] = "send"
          /\ wses[w] # s

====
